---------------------------- MODULE Spec2Model ----------------------------
(***************************************************************************)
(* A model of ruffle's AMF codec boundary and of the AVM1 SharedObject     *)
(* local object store (core/src/avm1/globals/shared_object.rs,             *)
(* core/src/avm2/amf.rs).                                                  *)
(*                                                                         *)
(* Strings are sequences of one-character strings, so that trimming,       *)
(* splitting, prefix tests, number parsing and number formatting are       *)
(* computed as the code computes them.                                     *)
(***************************************************************************)
EXTENDS Integers, Sequences, FiniteSets

VARIABLES
    cache,      \* avm1_shared_objects: storage key -> handle id
    handles,    \* handle id -> [name: the key set by set_name, data: object id]
    objects,    \* object id -> the data object's properties, in get_keys order
    storage,    \* the storage backend: key -> bytes
    initial,    \* the storage backend's contents when the player was first started
    flushed,    \* history: key -> properties of the data object at the last flush that stored
    last,       \* history: the last operation and what it returned
    call,       \* history: the arguments of the last getLocal call (under SpecKey)
    amfIn,      \* the input of the AVM2 encoder run under SpecAmf
    amfOut,     \* its output
    class_map,  \* Avm2ClassRegistry::class_map: class -> weak (movie, symbol)
    movies,     \* the movies that a strong reference still keeps alive
    symbol_calls \* history: the set_class_symbol calls made, in order

\* The state of the AVM2 class registry.
registry == <<class_map, movies, symbol_calls>>

vars == <<cache, handles, objects, storage, initial, flushed, last, call, amfIn, amfOut,
          registry>>

-----------------------------------------------------------------------------
(* Bounds of the model.                                                    *)

\* Handles one session creates at most.
MaxHandles == 2
\* Longest name drawn for SharedObject.getLocal under SpecKey.
MaxNameLen == 3
\* Longest localPath override drawn under SpecKey.
MaxPathLen == 3
\* Most properties of an AVM2 array drawn under SpecAmf.
MaxEnum == 4

-----------------------------------------------------------------------------
(* Strings.                                                                *)

EmptyFn == [x \in {} |-> x]

Extend(f, k, v) == [x \in DOMAIN f \cup {k} |-> IF x = k THEN v ELSE f[x]]

Without(f, k) == [x \in DOMAIN f \ {k} |-> f[x]]

\* str::contains(char)
Contains(s, c) == \E i \in 1..Len(s) : s[i] = c

\* str::starts_with(&str)
StartsWith(s, p) == Len(p) <= Len(s) /\ SubSeq(s, 1, Len(p)) = p

\* str::ends_with(char)
EndsWithChar(s, c) == Len(s) > 0 /\ s[Len(s)] = c

\* s[n..]
From(s, n) == SubSeq(s, n + 1, Len(s))

\* str::strip_prefix(char).unwrap_or(s)
StripPrefix(s, c) == IF Len(s) > 0 /\ s[1] = c THEN Tail(s) ELSE s

\* str::strip_suffix(char).unwrap_or(s)
StripSuffix(s, c) == IF EndsWithChar(s, c) THEN SubSeq(s, 1, Len(s) - 1) ELSE s

RECURSIVE SplitAcc(_, _, _, _)
SplitAcc(s, c, i, cur) ==
    IF i > Len(s) THEN <<cur>>
    ELSE IF s[i] = c THEN <<cur>> \o SplitAcc(s, c, i + 1, <<>>)
    ELSE SplitAcc(s, c, i + 1, Append(cur, s[i]))

\* str::split(char), collected
Split(s, c) == SplitAcc(s, c, 1, <<>>)

\* All strings over alphabet A of length at most n.
RECURSIVE StringsUpTo(_, _)
StringsUpTo(A, n) ==
    IF n = 0 THEN {<<>>}
    ELSE LET shorter == StringsUpTo(A, n - 1)
         IN shorter \cup {Append(s, c) : s \in shorter, c \in A}

Digits == <<"0", "1", "2", "3", "4", "5", "6", "7", "8", "9">>

IsDigit(c) == \E d \in 1..10 : Digits[d] = c

DigitVal(c) == (CHOOSE d \in 1..10 : Digits[d] = c) - 1

RECURSIVE NatToString(_)
NatToString(n) ==
    IF n < 10 THEN <<Digits[n + 1]>>
    ELSE NatToString(n \div 10) \o <<Digits[(n % 10) + 1]>>

\* i32 / usize to_string(): the decimal rendering
ToString(i) == IF i < 0 THEN <<"-">> \o NatToString(0 - i) ELSE NatToString(i)

RECURSIVE DigitsValue(_, _)
DigitsValue(s, acc) ==
    IF s = <<>> THEN acc ELSE DigitsValue(Tail(s), acc * 10 + DigitVal(Head(s)))

I32Min == (0 - 2147483647) - 1
I32Max == 2147483647

\* str::parse::<i32>(): an optional sign, then one or more decimal digits, in
\* range. <<n>> for Ok(n), <<>> for Err.
ParseI32(s) ==
    LET signed == Len(s) > 0 /\ s[1] \in {"+", "-"}
        body   == IF signed THEN Tail(s) ELSE s
        mag    == DigitsValue(body, 0)
        val    == IF signed /\ s[1] = "-" THEN 0 - mag ELSE mag
    IN IF body = <<>> \/ \E i \in 1..Len(body) : ~IsDigit(body[i]) THEN <<>>
       ELSE IF val < I32Min \/ val > I32Max THEN <<>>
       ELSE <<val>>

-----------------------------------------------------------------------------
(* SharedObject.getLocal: key derivation.                                  *)

\* const INVALID_CHARS: &str = "~%&\\;:\"',<>?# ";
INVALID_CHARS == <<"~", "%", "&", "\\", ";", ":", "\"", "'", ",", "<", ">", "?", "#", " ">>

\* A forbidden set that misses its last two characters.
HasInvalidCharShort(name) ==
    \E i \in 1..Len(name) : \E j \in 1..(Len(INVALID_CHARS) - 2) : name[i] = INVALID_CHARS[j]

HasInvalidChar(name) ==
    \E i \in 1..Len(name) : \E j \in 1..Len(INVALID_CHARS) : name[i] = INVALID_CHARS[j]

\* A movie URL as url::Url::parse leaves it: ok is FALSE when parsing fails.
Url(scheme, host, path, query, fragment) ==
    [ok |-> TRUE, scheme |-> scheme, host |-> host, path |-> path,
     query |-> query, fragment |-> fragment]

BadUrl == [ok |-> FALSE, scheme |-> "", host |-> <<>>, path |-> <<>>,
           query |-> <<>>, fragment |-> <<>>]

\* movie_url.set_query(None); movie_url.set_fragment(None)
StripQueryFragment(url) == [url EXCEPT !.query = <<>>, !.fragment = <<>>]

\* movie_url.path() with one leading and one trailing slash removed
TrimmedUrlPath(url) == StripSuffix(StripPrefix(url.path, "/"), "/")

\* if let [_, b':', b'/', ..] = movie_path.as_bytes()
HasDriveLetter(p) == Len(p) >= 3 /\ p[2] = ":" /\ p[3] = "/"

\* The drive letter kept.
MoviePathKeepsDrive(url) == TrimmedUrlPath(url)

MoviePath(url) ==
    LET p == TrimmedUrlPath(url)
    IN IF url.scheme = "file" /\ HasDriveLetter(p) THEN From(p, 3) ELSE p

Localhost == <<"l", "o", "c", "a", "l", "h", "o", "s", "t">>

MovieHost(url) == IF url.scheme = "file" THEN Localhost ELSE url.host

\* The localPath argument: a string, or any other value (or no argument).
NoPath == [isString |-> FALSE, s |-> <<>>]
PathArg(s) == [isString |-> TRUE, s |-> s]

\* Remove a trailing slash, then a leading slash.
TrimLocalPath(s) ==
    LET a == IF EndsWithChar(s, "/") THEN SubSeq(s, 1, Len(s) - 1) ELSE s
    IN IF StartsWith(a, <<"/">>) THEN Tail(a) ELSE a

\* A plain string prefix test.
LocalPathStringPrefix(movie_path, local_path) == StartsWith(movie_path, local_path)

\* "Verify that local_path is a prefix of the SWF path."
LocalPathMatches(movie_path, local_path) ==
    /\ StartsWith(movie_path, local_path)
    /\ \/ local_path = <<>>
       \/ Len(movie_path) = Len(local_path)
       \/ StartsWith(From(movie_path, Len(local_path)), <<"/">>)

Accept(key) == [ok |-> TRUE, key |-> key, composed |-> <<key>>]
Reject(composed) == [ok |-> FALSE, key |-> <<>>, composed |-> composed]

\* let local_path = if let Some(Value::String(local_path)) = args.get(1) {..}
\* <<p>> for the local path, <<>> for the early return of Null.
LocalPath(movie_path, lp) ==
    IF lp.isString
    THEN IF lp.s = <<>> THEN <<>>
         ELSE LET local_path == TrimLocalPath(lp.s)
              IN IF LocalPathMatches(movie_path, local_path)
                 THEN <<local_path>> ELSE <<>>
    ELSE <<movie_path>>

\* The key composed without the "#" prefix.
FullNameNoPrefix(movie_host, local_path, name) ==
    movie_host \o <<"/">> \o local_path \o <<"/">> \o name

\* format!("{movie_host}/{local_path}/{prefix}{name}")
FullName(movie_host, local_path, name) ==
    LET prefix == IF Contains(name, "/") THEN <<"#">> ELSE <<>>
    IN movie_host \o <<"/">> \o local_path \o <<"/">> \o prefix \o name

\* Only the first segment looked at.
HasDotSegmentFirst(full_name) == StartsWith(full_name, <<".">>)

\* full_name.split('/').any(|s| s.starts_with('.'))
HasDotSegment(full_name) ==
    LET segs == Split(full_name, "/")
    IN \E i \in 1..Len(segs) : StartsWith(segs[i], <<".">>)

\* Only plain http turned away.
SecureRejectedHttp(url, secure) == secure /\ url.scheme = "http"

SecureRejected(url, secure) == secure /\ url.scheme # "https"

\* The part of get_local up to the cache lookup: the storage key, or the early
\* return of Null. composed holds full_name when the code got to format it.
DeriveKey(name, url, lp, secure) ==
    IF HasInvalidChar(name) THEN Reject(<<>>)
    ELSE IF ~url.ok THEN Reject(<<>>)
    ELSE LET movie_url  == StripQueryFragment(url)
             movie_path == MoviePath(movie_url)
             movie_host == MovieHost(movie_url)
         IN IF SecureRejected(movie_url, secure) THEN Reject(<<>>)
            ELSE LET local == LocalPath(movie_path, lp)
                 IN IF local = <<>> THEN Reject(<<>>)
                    ELSE LET full_name == FullName(movie_host, local[1], name)
                         IN IF HasDotSegment(full_name) THEN Reject(<<full_name>>)
                            ELSE Accept(full_name)

-----------------------------------------------------------------------------
(* AVM1 values and the wire values of flash_lso.                           *)

Undefined == [t |-> "Undefined"]
Null == [t |-> "Null"]
Bool(b) == [t |-> "Bool", b |-> b]
Number(n) == [t |-> "Number", n |-> n]
String(s) == [t |-> "String", s |-> s]
MovieClip == [t |-> "MovieClip"]
\* Value::Object(o): kind is what as_executable / as_display_object /
\* as_array_object tell of o; props are o's enumerable properties in get_keys
\* order; len is an array's length.
Obj(kind, props, len) == [t |-> "Object", kind |-> kind, props |-> props, len |-> len]
Prop(name, value) == [name |-> name, value |-> value]

PlainObject(props) == Obj("plain", props, 0)
ArrayObject(props, len) == Obj("array", props, len)
FunctionObject == Obj("function", <<>>, 0)
\* An XML node with its string form, and a Date with its time.
XmlNode(s) == [t |-> "Object", kind |-> "xml", s |-> s]
Avm1Date(time) == [t |-> "Object", kind |-> "date", time |-> time]
DisplayObject == Obj("display", <<>>, 0)

AmfUndefined == [a |-> "Undefined"]
AmfNull == [a |-> "Null"]
AmfBool(b) == [a |-> "Bool", b |-> b]
AmfNumber(n) == [a |-> "Number", n |-> n]
AmfString(s) == [a |-> "String", s |-> s]
AmfECMAArray(dense, assoc, len) ==
    [a |-> "ECMAArray", dense |-> dense, assoc |-> assoc, len |-> len]
AmfObject(elements, class) == [a |-> "Object", elements |-> elements, class |-> class]
\* The wire variants the AVM1 decoder has no arm for (its `_` arm).
AmfOther(tag) == [a |-> tag]
Element(name, value) == [name |-> name, value |-> value]
\* Lso::new(elements, name, version)
Lso(body, name, version) == [body |-> body, name |-> name, version |-> version]

\* The keys taken in enumeration order.
ReversedKeysForward(props) == props

\* TObject::get_keys, reversed ("Reversed to match flash player ordering")
ReversedKeys(props) == [i \in 1..Len(props) |-> props[Len(props) + 1 - i]]

RECURSIVE Avm1SerializeValue(_), Avm1RecursiveSerializeFrom(_, _)

\* The value of a property whose getter fails: obj.get(..) is Err.
GetFails == [t |-> "Throws"]

\* avm1 recursive_serialize: the elements pushed for the properties listed in
\* `keys`; a property whose getter fails (if let Ok(elem) = obj.get(..)) or
\* whose value serializes to None is left out.
Avm1RecursiveSerializeFrom(keys, i) ==
    IF i > Len(keys) THEN <<>>
    ELSE IF keys[i].value = GetFails THEN Avm1RecursiveSerializeFrom(keys, i + 1)
    ELSE LET v == Avm1SerializeValue(keys[i].value)
         IN (IF v = <<>> THEN <<>> ELSE <<Element(keys[i].name, v[1])>>)
            \o Avm1RecursiveSerializeFrom(keys, i + 1)

Avm1RecursiveSerialize(props) == Avm1RecursiveSerializeFrom(ReversedKeys(props), 1)

\* avm1 serialize_value: <<v>> for Some(v), <<>> for None.
Avm1SerializeValue(elem) ==
    CASE elem.t = "Undefined" -> <<AmfUndefined>>
      [] elem.t = "MovieClip" -> <<AmfUndefined>>
      [] elem.t = "Null" -> <<AmfNull>>
      [] elem.t = "Bool" -> <<AmfBool(elem.b)>>
      [] elem.t = "Number" -> <<AmfNumber(elem.n)>>
      [] elem.t = "String" -> <<AmfString(elem.s)>>
      [] elem.t = "Object" ->
            IF elem.kind = "function" THEN <<>>
            ELSE IF elem.kind = "display" THEN <<AmfUndefined>>
            ELSE IF elem.kind = "array"
                 THEN <<AmfECMAArray(<<>>, Avm1RecursiveSerialize(elem.props), elem.len)>>
            ELSE IF elem.kind = "xml" THEN <<[a |-> "XML", s |-> elem.s, is_string |-> TRUE]>>
            ELSE IF elem.kind = "date" THEN <<[a |-> "Date", time |-> elem.time]>>
            ELSE <<AmfObject(Avm1RecursiveSerialize(elem.props), <<>>)>>

\* TObject::define_value on an object's property list: an existing property
\* keeps its place and takes the value, a new one is added.
DefineValue(props, name, value) ==
    IF \E i \in 1..Len(props) : props[i].name = name
    THEN [i \in 1..Len(props) |->
            IF props[i].name = name THEN Prop(name, value) ELSE props[i]]
    ELSE Append(props, Prop(name, value))

\* TObject::set_element on an array: the property named by the index's decimal
\* rendering, and a length that covers the index.
SetElement(arr, i, value) ==
    [arr EXCEPT !.props = DefineValue(arr.props, ToString(i), value),
                !.len = IF i >= arr.len THEN i + 1 ELSE arr.len]

\* TObject::delete
DeleteProp(props, name) == SelectSeq(props, LAMBDA p : p.name # name)

RECURSIVE Avm1DeserializeValue(_), Avm1DeserializeArray(_, _, _), Avm1DeserializeObject(_, _, _)

\* The loop of the ECMAArray arm over `associative`
Avm1DeserializeArray(arr, associative, i) ==
    IF i > Len(associative) THEN arr
    ELSE LET entry == associative[i]
             value == Avm1DeserializeValue(entry.value)
             idx   == ParseI32(entry.name)
         IN Avm1DeserializeArray(
                IF idx # <<>> THEN SetElement(arr, idx[1], value)
                ELSE [arr EXCEPT !.props = DefineValue(arr.props, entry.name, value)],
                associative, i + 1)

\* The loop of the Object arm (and of deserialize_lso) over the elements
Avm1DeserializeObject(props, elements, i) ==
    IF i > Len(elements) THEN props
    ELSE Avm1DeserializeObject(
            DefineValue(props, elements[i].name, Avm1DeserializeValue(elements[i].value)),
            elements, i + 1)

\* avm1 deserialize_value
Avm1DeserializeValue(val) ==
    CASE val.a = "Null" -> Null
      [] val.a = "Undefined" -> Undefined
      [] val.a = "Number" -> Number(val.n)
      [] val.a = "String" -> String(val.s)
      [] val.a = "Bool" -> Bool(val.b)
      [] val.a = "ECMAArray" ->
            Avm1DeserializeArray(ArrayObject(<<>>, val.len), val.assoc, 1)
      [] val.a = "Object" -> PlainObject(Avm1DeserializeObject(<<>>, val.elements, 1))
      [] OTHER -> Undefined

\* avm1 deserialize_lso: the properties of the fresh data object
Avm1DeserializeLso(lso) == Avm1DeserializeObject(<<>>, lso.body, 1)

-----------------------------------------------------------------------------
(* The storage backend and the byte-level AMF codec (flash_lso).           *)

\* flash_lso::write::write_to_bytes(&mut lso).unwrap_or_default()
WriteToBytes(lso) == [fmt |-> "lso", lso |-> lso]

\* Bytes that flash_lso::read::Reader::parse rejects.
Garbage == [fmt |-> "garbage"]

\* Reader::default().parse(&saved): <<lso>> for Ok(lso), <<>> for Err.
ParseBytes(bytes) == IF bytes.fmt = "lso" THEN <<bytes.lso>> ELSE <<>>

\* StorageBackend::get
StorageGet(st, key) == IF key \in DOMAIN st THEN <<st[key]>> ELSE <<>>

\* StorageBackend::put: stores and returns true, or fails, stores nothing and
\* returns false.
StoragePut(st, key, bytes, succeeds) == IF succeeds THEN Extend(st, key, bytes) ELSE st

\* StorageBackend::remove_key
StorageRemoveKey(st, key) == Without(st, key)

-----------------------------------------------------------------------------
(* The local object store: SharedObject.getLocal, flush, clear.            *)

\* What a native method returns to the script: a handle is the SharedObject.
Handle(h) == [t |-> "Handle", h |-> h]

\* A load that takes whatever bytes are stored for a parsed container with
\* an empty body.
LoadDataUnparsed(st, full_name) ==
    IF StorageGet(st, full_name) = <<>> THEN <<>> ELSE <<<<>>>>

\* "Load the data object from storage if it existed prior": <<props>> for a
\* decoded data object, <<>> while data is still Value::Undefined.
LoadData(st, full_name) ==
    LET saved == StorageGet(st, full_name)
    IN IF saved = <<>> THEN <<>>
       ELSE LET lso == ParseBytes(saved[1])
            IN IF lso = <<>> THEN <<>> ELSE <<Avm1DeserializeLso(lso[1])>>

\* "No data; create a fresh data object."
DataOrFresh(loaded) == IF loaded = <<>> THEN <<>> ELSE loaded[1]

\* A lookup that never finds the key.
CacheGetMisses(c, full_name) == <<>>

\* activation.context.avm1_shared_objects.get(&full_name)
CacheGet(c, full_name) == IF full_name \in DOMAIN c THEN <<c[full_name]>> ELSE <<>>

\* The record of a getLocal call: what it returned, whether the cache held the
\* key, and the keys it passed to the storage backend.
Returned(seen, res, hit, skeys) ==
    [op |-> seen.op, secure |-> seen.secure, scheme |-> seen.scheme,
     composed |-> seen.composed, res |-> res, hit |-> hit, skeys |-> skeys]

\* SharedObject.getLocal(name, localPath, secure), called from a movie at url.
GetLocal(name, url, lp, secure) ==
    LET d == DeriveKey(name, url, lp, secure)
        seen == [op |-> "get_local", secure |-> secure, scheme |-> url.scheme,
                 composed |-> d.composed]
    IN IF ~d.ok
       THEN /\ last' = Returned(seen, Null, FALSE, {})
            /\ UNCHANGED <<cache, handles, objects, storage, initial, flushed>>
       ELSE LET so == CacheGet(cache, d.key)
            IN IF so # <<>>
               THEN /\ last' = Returned(seen, Handle(so[1]), TRUE, {})
                    /\ UNCHANGED <<cache, handles, objects, storage, initial, flushed>>
               ELSE /\ Cardinality(DOMAIN handles) < MaxHandles
                    /\ LET this == Cardinality(DOMAIN handles) + 1
                           data == DataOrFresh(LoadData(storage, d.key))
                       IN /\ handles' = Extend(handles, this, [name |-> d.key, data |-> this])
                          /\ objects' = Extend(objects, this, data)
                          /\ cache' = Extend(cache, d.key, this)
                          /\ last' = Returned(seen, Handle(this), FALSE, {d.key})
                    /\ UNCHANGED <<storage, initial, flushed>>

\* The whole key taken for the name of the Lso.
LastSegmentWhole(name) == name

\* name.split('/').last(), the name of the Lso
LastSegment(name) == LET segs == Split(name, "/") IN segs[Len(segs)]

\* The Lso flush builds from the data object
FlushLso(data, name) == Lso(Avm1RecursiveSerialize(data), LastSegment(name), "AMF0")

\* A flush that always reports success.
FlushResultTrue(put) == Bool(TRUE)

\* Ok(activation.context.storage.put(&name, &bytes).into())
FlushResult(put) == Bool(put)

\* SharedObject.flush() on handle this; stored is what the backend's put returns.
Flush(this, stored) ==
    /\ this \in DOMAIN handles
    /\ LET data  == objects[handles[this].data]
           name  == handles[this].name
           bytes == WriteToBytes(FlushLso(data, name))
       IN /\ storage' = StoragePut(storage, name, bytes, stored)
          /\ flushed' = IF stored THEN Extend(flushed, name, data) ELSE flushed
          /\ last' = [op |-> "flush", this |-> this, res |-> FlushResult(stored),
                      put |-> stored, bytes |-> bytes, skeys |-> {name}]
    /\ UNCHANGED <<cache, handles, objects, initial>>

\* A loop that deletes nothing.
DeleteKeysNone(props, keys, i) == props

\* for k in &data.get_keys(activation) { data.delete(activation, *k); }
RECURSIVE DeleteKeys(_, _, _)
DeleteKeys(props, keys, i) ==
    IF i > Len(keys) THEN props
    ELSE DeleteKeys(DeleteProp(props, keys[i].name), keys, i + 1)

\* A clear that deletes the properties and leaves the backend alone.
ClearKeepsEntry(this) ==
    /\ this \in DOMAIN handles
    /\ LET data == handles[this].data
           name == handles[this].name
       IN /\ objects' = [objects EXCEPT ![data] = DeleteKeys(objects[data], objects[data], 1)]
          /\ flushed' = Without(flushed, name)
          /\ last' = [op |-> "clear", this |-> this, res |-> Undefined, skeys |-> {name},
                      deleted |-> Len(objects[data]), existed |-> name \in DOMAIN storage]
    /\ UNCHANGED <<cache, handles, storage, initial>>

\* SharedObject.clear() on handle this
Clear(this) ==
    /\ this \in DOMAIN handles
    /\ LET data == handles[this].data
           name == handles[this].name
       IN /\ objects' = [objects EXCEPT ![data] = DeleteKeys(objects[data], objects[data], 1)]
          /\ storage' = StorageRemoveKey(storage, name)
          /\ flushed' = Without(flushed, name)
          /\ last' = [op |-> "clear", this |-> this, res |-> Undefined, skeys |-> {name},
                      deleted |-> Len(objects[data]), existed |-> name \in DOMAIN storage]
    /\ UNCHANGED <<cache, handles, initial>>

\* The script assigns so.data[name] = value.
SetProp(this, name, value) ==
    /\ this \in DOMAIN handles
    /\ objects' = [objects EXCEPT ![handles[this].data] = DefineValue(@, name, value)]
    /\ last' = [op |-> "set", this |-> this]
    /\ UNCHANGED <<cache, handles, storage, initial, flushed>>

\* The player is closed and started again: the cache and every script object
\* are gone, the storage backend keeps what it holds.
NewSession ==
    /\ last.op # "init"
    /\ cache' = EmptyFn
    /\ handles' = EmptyFn
    /\ objects' = EmptyFn
    /\ last' = [op |-> "new_session"]
    /\ UNCHANGED <<storage, initial, flushed>>

-----------------------------------------------------------------------------
(* The inputs drawn, and the specifications.                               *)

HostH == <<"h">>
ExampleHost == <<"e", "x", "a", "m", "p", "l", "e", ".", "c", "o", "m">>
ExamplePath == <<"/", "g", "a", "m", "e", ".", "s", "w", "f">>
ExampleName == <<"d", "a", "t", "a">>
ExampleUrl == Url("https", ExampleHost, ExamplePath, <<>>, <<>>)

\* Movies of the sessions modelled under Spec: https://h/g?q, http://h/g and
\* file:///c:/g#f
StoreUrls ==
    { Url("https", HostH, <<"/", "g">>, <<"q">>, <<>>),
      Url("http", HostH, <<"/", "g">>, <<>>, <<>>),
      Url("file", <<>>, <<"/", "c", ":", "/", "g">>, <<>>, <<"f">>) }

StoreNames == { <<"a">>, <<".", "a">> }

StorePaths == { NoPath, PathArg(<<"x">>) }

KeyHA == HostH \o <<"/", "g", "/", "a">>

PropNames == { <<"x">> }

\* Values the script stores in a data object under Spec.
StoreValues ==
    { Number(1),
      ArrayObject(<<Prop(<<"0">>, String(<<"a">>))>>, 1),
      ArrayObject(<<Prop(<<"0", "1">>, Number(1))>>, 2),
      GetFails }

\* What the storage backend holds when the player is first started: nothing,
\* or bytes under a key that are no AMF.
InitialStorages == { EmptyFn, Extend(EmptyFn, KeyHA, Garbage) }

NoAmf == [t |-> "none"]

\* The movies and classes of the registry modelled, and the symbol ids.
Movies == {"m1", "m2"}
RegistryClasses == {"c1", "c2"}
CharacterIds == {1, 2}

\* Avm2ClassRegistry::new(), with every movie loaded and alive.
InitRegistry ==
    /\ class_map = EmptyFn
    /\ movies = Movies
    /\ symbol_calls = <<>>

NoCall == [called |-> FALSE]
Call(name, url, lp, secure) ==
    [called |-> TRUE, name |-> name, url |-> url, lp |-> lp, secure |-> secure]

Init ==
    /\ cache = EmptyFn
    /\ handles = EmptyFn
    /\ objects = EmptyFn
    /\ storage \in InitialStorages
    /\ initial = storage
    /\ flushed = EmptyFn
    /\ last = [op |-> "init"]
    /\ call = NoCall
    /\ amfIn = NoAmf
    /\ amfOut = NoAmf
    /\ InitRegistry

Next ==
    \/ \E name \in StoreNames, url \in StoreUrls, lp \in StorePaths, secure \in BOOLEAN :
          GetLocal(name, url, lp, secure) /\ UNCHANGED <<call, amfIn, amfOut, registry>>
    \/ \E this \in 1..MaxHandles, stored \in BOOLEAN :
          Flush(this, stored) /\ UNCHANGED <<call, amfIn, amfOut, registry>>
    \/ \E this \in 1..MaxHandles : Clear(this) /\ UNCHANGED <<call, amfIn, amfOut, registry>>
    \/ \E this \in 1..MaxHandles, name \in PropNames, value \in StoreValues :
          SetProp(this, name, value) /\ UNCHANGED <<call, amfIn, amfOut, registry>>
    \/ NewSession /\ UNCHANGED <<call, amfIn, amfOut, registry>>

Spec == Init /\ [][Next]_vars

\* Movies of the lookups examined under SpecKey: https://h/aa?q, http://h/a/a,
\* file:///c:/a/a, file:///a/#f, https://h/.a/a, https://example.com/game.swf
\* and a URL that does not parse.
KeyUrls ==
    { Url("https", HostH, <<"/", "a", "a">>, <<"q">>, <<>>),
      Url("http", HostH, <<"/", "a", "/", "a">>, <<>>, <<>>),
      Url("file", <<>>, <<"/", "c", ":", "/", "a", "/", "a">>, <<>>, <<>>),
      Url("file", <<>>, <<"/", "a", "/">>, <<>>, <<"f">>),
      Url("https", HostH, <<"/", ".", "a", "/", "a">>, <<>>, <<>>),
      ExampleUrl,
      BadUrl }

\* Names with one character of the forbidden set, alone and after a letter.
ForbiddenNames ==
    {<<INVALID_CHARS[j]>> : j \in 1..Len(INVALID_CHARS)}
        \cup {<<"a", INVALID_CHARS[j]>> : j \in 1..Len(INVALID_CHARS)}

KeyNames ==
    StringsUpTo({"a", "/", ".", "#"}, MaxNameLen) \cup {ExampleName} \cup ForbiddenNames

KeyPaths == {NoPath} \cup {PathArg(s) : s \in StringsUpTo({"a", "/"}, MaxPathLen)}

\* SpecKey examines the first lookup of a session, over every name, movie and
\* localPath of the sets above.
KeyNext ==
    \/ /\ ~call.called
       /\ \E name \in KeyNames, url \in KeyUrls, lp \in KeyPaths, secure \in BOOLEAN :
             /\ GetLocal(name, url, lp, secure)
             /\ call' = Call(name, url, lp, secure)
       /\ UNCHANGED <<amfIn, amfOut, registry>>
    \/ NewSession /\ call' = NoCall /\ UNCHANGED <<amfIn, amfOut, registry>>

SpecKey == Init /\ [][KeyNext]_vars

\* Names and movies of the lookups compared under SpecInject: http://h/a/a
\* and https://h/aa?q.
InjectNames == StringsUpTo({"a", "/"}, MaxNameLen)

InjectUrls ==
    { Url("http", HostH, <<"/", "a", "/", "a">>, <<>>, <<>>),
      Url("https", HostH, <<"/", "a", "a">>, <<"q">>, <<>>) }

\* SpecInject examines the first lookup of a session over the names of
\* InjectNames and every localPath of KeyPaths.
InjectNext ==
    \/ /\ ~call.called
       /\ \E name \in InjectNames, url \in InjectUrls, lp \in KeyPaths, secure \in BOOLEAN :
             /\ GetLocal(name, url, lp, secure)
             /\ call' = Call(name, url, lp, secure)
       /\ UNCHANGED <<amfIn, amfOut, registry>>
    \/ NewSession /\ call' = NoCall /\ UNCHANGED <<amfIn, amfOut, registry>>

SpecInject == Init /\ [][InjectNext]_vars

\* Names of the lookups examined under SpecFlush: with and without "/".
FlushNames == StringsUpTo({"a", "b", "/"}, MaxNameLen)

\* SpecFlush examines the flushes on the handle of the first lookup of a
\* session, over every name of FlushNames.
FlushNext ==
    \/ /\ ~call.called
       /\ \E name \in FlushNames, url \in StoreUrls, lp \in StorePaths, secure \in BOOLEAN :
             /\ GetLocal(name, url, lp, secure)
             /\ call' = Call(name, url, lp, secure)
       /\ UNCHANGED <<amfIn, amfOut, registry>>
    \/ \E this \in 1..MaxHandles, name \in PropNames :
          SetProp(this, name, Number(1)) /\ UNCHANGED <<call, amfIn, amfOut, registry>>
    \/ \E this \in 1..MaxHandles, stored \in BOOLEAN :
          Flush(this, stored) /\ UNCHANGED <<call, amfIn, amfOut, registry>>

SpecFlush == Init /\ [][FlushNext]_vars

-----------------------------------------------------------------------------
(* The AVM2 class registry (library.rs).                                   *)

\* Most set_class_symbol calls of a behaviour under SpecRegistry.
MaxCalls == 3

\* MovieSymbol(Arc<SwfMovie>, CharacterId)
MovieSymbol(movie, symbol) == [movie |-> movie, symbol |-> symbol]

\* WeakValueHashMap::get: the entry of the key when its weak value can still
\* be upgraded, that is when the movie is alive.
ClassMapGet(map, alive, class_object) ==
    IF class_object \in DOMAIN map /\ map[class_object].movie \in alive
    THEN <<map[class_object]>>
    ELSE <<>>

\* Avm2ClassRegistry::class_symbol
ClassSymbol(class_object) == ClassMapGet(class_map, movies, class_object)

\* An association that replaces the one stored.
SetClassSymbolOverwrites(map, alive, class_object, movie, symbol) ==
    Extend(map, class_object, MovieSymbol(movie, symbol))

\* Avm2ClassRegistry::set_class_symbol: the map after the call
SetClassSymbolMap(map, alive, class_object, movie, symbol) ==
    IF ClassMapGet(map, alive, class_object) # <<>>
    THEN map
    ELSE Extend(map, class_object, MovieSymbol(movie, symbol))

\* set_class_symbol(class_object, movie, symbol); the caller holds the movie.
SetClassSymbol(class_object, movie, symbol) ==
    /\ Len(symbol_calls) < MaxCalls
    /\ movie \in movies
    /\ class_map' = SetClassSymbolMap(class_map, movies, class_object, movie, symbol)
    /\ symbol_calls' = Append(symbol_calls,
                              [class |-> class_object, movie |-> movie, symbol |-> symbol])
    /\ last' = [op |-> "set_class_symbol", class |-> class_object, movie |-> movie,
                symbol |-> symbol, old |-> ClassSymbol(class_object)]
    /\ UNCHANGED <<cache, handles, objects, storage, initial, flushed, call, amfIn, amfOut,
                   movies>>

\* The last strong reference to a movie is dropped: its weak entries expire.
DropMovie(movie) ==
    /\ movie \in movies
    /\ movies' = movies \ {movie}
    /\ last' = [op |-> "drop_movie", movie |-> movie]
    /\ UNCHANGED <<cache, handles, objects, storage, initial, flushed, call, amfIn, amfOut,
                   class_map, symbol_calls>>

RegistryNext ==
    \/ \E class_object \in RegistryClasses, movie \in Movies, symbol \in CharacterIds :
          SetClassSymbol(class_object, movie, symbol)
    \/ \E movie \in Movies : DropMovie(movie)

SpecRegistry == Init /\ [][RegistryNext]_vars

-----------------------------------------------------------------------------
(* The AVM2 encoder (core/src/avm2/amf.rs).                                *)

Integer(n) == [t |-> "Integer", n |-> n]

AmfInteger(n) == [a |-> "Integer", n |-> n]
AmfStrictArray(dense) == [a |-> "StrictArray", dense |-> dense]

\* 1 << 28
IntegerLimit == 268435456

\* The arm with the upper end of the range taken in.
SerializeIntegerInclusive(num, amf_version) ==
    IF amf_version = "AMF0" \/ num > IntegerLimit \/ num < 0 - IntegerLimit
    THEN AmfNumber(num)
    ELSE AmfInteger(num)

\* The Value::Integer arm of serialize_value
SerializeInteger(num, amf_version) ==
    IF amf_version = "AMF0" \/ num >= IntegerLimit \/ num < 0 - IntegerLimit
    THEN AmfNumber(num)
    ELSE AmfInteger(num)

\* The split that compares a name with the length of the dense list so far.
RECURSIVE SplitByDenseLength(_, _, _, _)
SplitByDenseLength(values, i, dense, sparse) ==
    IF i >= Len(values) THEN [dense |-> dense, sparse |-> sparse]
    ELSE LET elem == values[i + 1]
         IN IF elem.name = ToString(Len(dense))
            THEN SplitByDenseLength(values, i + 1, Append(dense, elem.value), sparse)
            ELSE SplitByDenseLength(values, i + 1, dense, Append(sparse, elem))

\* for (i, elem) in values.into_iter().enumerate() { if elem.name == i.to_string()
\* { dense.push(elem.value.clone()) } else { sparse.push(elem) } }
RECURSIVE SplitDenseSparse(_, _, _, _)
SplitDenseSparse(values, i, dense, sparse) ==
    IF i >= Len(values) THEN [dense |-> dense, sparse |-> sparse]
    ELSE LET elem == values[i + 1]
         IN IF elem.name = ToString(i)
            THEN SplitDenseSparse(values, i + 1, Append(dense, elem.value), sparse)
            ELSE SplitDenseSparse(values, i + 1, dense, Append(sparse, elem))

\* What stands in the place of a result when the call panicked (an unwrap or
\* expect failed) and returned nothing.
Panicked == [a |-> "Panic"]

\* The value of a property whose getter throws: get_public_property is Err.
Throws == [t |-> "Throws"]

\* A ClassObject: its name and whether its class definition is sealed.
Class(name, sealed) == [name |-> name, sealed |-> sealed]
ObjectClass == Class(<<"O">>, FALSE)
IntClass == Class(<<"i">>, TRUE)
UintClass == Class(<<"u">>, TRUE)
NumberClass == Class(<<"n">>, TRUE)
\* A dynamic class and a sealed class registered under an alias, and a sealed
\* class that is not registered.
PointClass == Class(<<"P">>, FALSE)
SealedClass == Class(<<"S">>, TRUE)
UnregisteredClass == Class(<<"U">>, TRUE)

\* The aliases registered with flash.net.registerClassAlias.
RegisteredAliases ==
    { [alias |-> <<"p">>, class |-> PointClass], [alias |-> <<"s">>, class |-> SealedClass] }

\* A public property of the vtable: a slot, a method, or a virtual property
\* with a getter, a setter or both; value is what get_public_property gives.
Trait(name, accessor, value) == [name |-> name, accessor |-> accessor, value |-> value]

\* An object that is none of executable, display object, array, vector, date,
\* XML, byte array: fixed lists vtable.public_properties() in vtable order,
\* props the enumerants in get_next_enumerant order.
Instance(class, fixed, props) ==
    [t |-> "Object", kind |-> "instance", class |-> class, fixed |-> fixed, props |-> props]
DateObject(date_time) == [t |-> "Object", kind |-> "date", date_time |-> date_time]
XmlObject(s) == [t |-> "Object", kind |-> "xml", s |-> s]
ByteArrayObject(bytes) == [t |-> "Object", kind |-> "bytearray", bytes |-> bytes]
VectorObject(value_type, elements, is_fixed) ==
    [t |-> "Object", kind |-> "vector", value_type |-> value_type,
     elements |-> elements, is_fixed |-> is_fixed]

AmfDate(time) == [a |-> "Date", time |-> time]
AmfXML(s, is_string) == [a |-> "XML", s |-> s, is_string |-> is_string]
AmfByteArray(bytes) == [a |-> "ByteArray", bytes |-> bytes]
AmfVectorInt(v, is_fixed) == [a |-> "VectorInt", v |-> v, is_fixed |-> is_fixed]
AmfVectorUInt(v, is_fixed) == [a |-> "VectorUInt", v |-> v, is_fixed |-> is_fixed]
AmfVectorDouble(v, is_fixed) == [a |-> "VectorDouble", v |-> v, is_fixed |-> is_fixed]
AmfVectorObject(v, name, is_fixed) ==
    [a |-> "VectorObject", v |-> v, name |-> name, is_fixed |-> is_fixed]
ClassDefinition(name, attributes, static_properties) ==
    [name |-> name, attributes |-> attributes, static_properties |-> static_properties]

AsExecutable(o) == o.kind = "function"
AsDisplayObject(o) == o.kind = "display"
AsArrayStorage(o) == o.kind = "array"
AsVectorStorage(o) == o.kind = "vector"
AsDateObject(o) == o.kind = "date"
AsXmlObject(o) == o.kind = "xml"
AsBytearray(o) == o.kind = "bytearray"

\* Whether the lookup and the call of the script-level alias functions
\* (flash.net.getClassByAlias, flash.net._getAliasByClass) succeed.
LookupWorks == amfIn.lookup

\* flash.net._getAliasByClass: the alias registered for the class, or null.
GetAliasByClass(class) ==
    IF \E r \in RegisteredAliases : r.class = class
    THEN String((CHOOSE r \in RegisteredAliases : r.class = class).alias)
    ELSE Null

\* class_to_alias: the two expects panic when the lookup or the call fails;
\* a null alias gives "".
ClassToAlias(class) ==
    IF ~LookupWorks THEN [panic |-> TRUE, alias |-> <<>>]
    ELSE LET alias == GetAliasByClass(class)
         IN [panic |-> FALSE, alias |-> IF alias = Null THEN <<>> ELSE alias.s]

\* The order of the characters used in property names, as bytes.
AsciiOrder == <<".", "/", "0", "1", "2", "3", "a", "b", "f", "o", "r", "x", "y", "z">>
CharRank(c) == CHOOSE i \in 1..Len(AsciiOrder) : AsciiOrder[i] = c

\* String comparison: a < b
RECURSIVE StrLess(_, _)
StrLess(a, b) ==
    IF b = <<>> THEN FALSE
    ELSE IF a = <<>> THEN TRUE
    ELSE IF a[1] = b[1] THEN StrLess(Tail(a), Tail(b))
    ELSE CharRank(a[1]) < CharRank(b[1])

\* Insertion of p into a list sorted by name, after the entries not greater.
RECURSIVE InsertByName(_, _)
InsertByName(sorted, p) ==
    IF sorted = <<>> THEN <<p>>
    ELSE IF StrLess(p.name, sorted[1].name) THEN <<p>> \o sorted
    ELSE <<sorted[1]>> \o InsertByName(Tail(sorted), p)

\* The properties left in vtable order.
SortByNameVtableOrder(props) == props

\* props.sort_by_key(|(name, _)| name.to_utf8_lossy().to_string()), a stable sort
RECURSIVE SortByName(_)
SortByName(props) ==
    IF props = <<>> THEN <<>>
    ELSE InsertByName(SortByName(SubSeq(props, 1, Len(props) - 1)), props[Len(props)])

\* A recursive_serialize result: Ok with the elements and static property names
\* pushed, Err when a getter failed, Panic when a nested call panicked.
SerOk(elements, static_properties) ==
    [status |-> "Ok", elements |-> elements, static_properties |-> static_properties]
SerErr == [status |-> "Err", elements |-> <<>>, static_properties |-> <<>>]
SerPanic == [status |-> "Panic", elements |-> <<>>, static_properties |-> <<>>]

RECURSIVE Avm2SerializeValue(_, _), Avm2RecursiveSerializeFrom(_, _, _, _, _),
          Avm2SerializeStatic(_, _, _, _, _), SerializeObjectVector(_, _, _, _)

\* The enumeration loop of avm2 recursive_serialize: props lists the object's
\* enumerants in get_next_enumerant order, each with the value
\* get_public_property gives; elements and static_properties are the lists so far.
Avm2RecursiveSerializeFrom(props, i, amf_version, elements, static_properties) ==
    IF i > Len(props) THEN SerOk(elements, static_properties)
    ELSE IF props[i].value = Throws THEN SerErr
    ELSE LET v == Avm2SerializeValue(props[i].value, amf_version)
         IN IF v = <<Panicked>> THEN SerPanic
            ELSE Avm2RecursiveSerializeFrom(props, i + 1, amf_version,
                    IF v = <<>> THEN elements ELSE Append(elements, Element(props[i].name, v[1])),
                    static_properties)

\* The static part of recursive_serialize over the sorted vtable properties,
\* followed by the enumeration loop over o.props.
Avm2SerializeStatic(o, sorted, i, amf_version, acc) ==
    IF i > Len(sorted)
    THEN Avm2RecursiveSerializeFrom(o.props, 1, amf_version, acc.elements, acc.static_properties)
    ELSE IF sorted[i].accessor \in {"get", "set"}
    THEN Avm2SerializeStatic(o, sorted, i + 1, amf_version, acc)
    ELSE IF sorted[i].value = Throws THEN SerErr
    ELSE LET v == Avm2SerializeValue(sorted[i].value, amf_version)
         IN IF v = <<Panicked>> THEN SerPanic
            ELSE IF v = <<>> THEN Avm2SerializeStatic(o, sorted, i + 1, amf_version, acc)
            ELSE Avm2SerializeStatic(o, sorted, i + 1, amf_version,
                    SerOk(Append(acc.elements, Element(sorted[i].name, v[1])),
                          Append(acc.static_properties, sorted[i].name)))

\* A traversal whose enumeration loop visits the fixed properties again.
Avm2RecursiveSerializeRevisits(obj, with_static, amf_version) ==
    IF with_static /\ obj.kind = "instance"
    THEN Avm2SerializeStatic(
            [obj EXCEPT !.props = [i \in 1..Len(obj.fixed) |->
                                      Prop(obj.fixed[i].name, obj.fixed[i].value)] \o obj.props],
            SortByName(obj.fixed), 1, amf_version, SerOk(<<>>, <<>>))
    ELSE Avm2RecursiveSerializeFrom(obj.props, 1, amf_version, <<>>, <<>>)

\* avm2 recursive_serialize(activation, obj, elements, static_properties, amf_version)
Avm2RecursiveSerialize(obj, with_static, amf_version) ==
    IF with_static /\ obj.kind = "instance"
    THEN Avm2SerializeStatic(obj, SortByName(obj.fixed), 1, amf_version, SerOk(<<>>, <<>>))
    ELSE Avm2RecursiveSerializeFrom(obj.props, 1, amf_version, <<>>, <<>>)

\* The arm that emits an ECMAArray whatever the split leaves.
SerializeArrayAlwaysECMA(o, amf_version) ==
    LET values == Avm2RecursiveSerialize(o, FALSE, amf_version)
        split  == SplitDenseSparse(values.elements, 0, <<>>, <<>>)
    IN IF values.status # "Ok" THEN Panicked
       ELSE AmfECMAArray(split.dense, split.sparse, Len(split.sparse))

\* The as_array_storage arm of serialize_value
SerializeArray(o, amf_version) ==
    LET values == Avm2RecursiveSerialize(o, FALSE, amf_version)
        split  == SplitDenseSparse(values.elements, 0, <<>>, <<>>)
    IN IF values.status # "Ok" THEN Panicked
       ELSE IF split.sparse = <<>>
       THEN AmfStrictArray(split.dense)
       ELSE AmfECMAArray(split.dense, split.sparse, Len(split.sparse))

\* Value::as_integer, as_u32, as_number: <<n>>, or <<>> when the value is not
\* of that type.
AsInteger(v) == IF v.t = "Integer" THEN <<v.n>> ELSE <<>>
AsU32(v) == IF v.t = "Integer" /\ v.n >= 0 THEN <<v.n>> ELSE <<>>
AsNumber(v) == IF v.t \in {"Integer", "Number"} THEN <<v.n>> ELSE <<>>

RECURSIVE SerializeObjectVectorSkips(_, _, _, _)

\* The elements of an object vector with those that encode to None left out.
SerializeObjectVectorSkips(elements, i, amf_version, acc) ==
    IF i > Len(elements) THEN <<acc>>
    ELSE LET v == Avm2SerializeValue(elements[i], amf_version)
         IN IF v = <<Panicked>> THEN <<>>
            ELSE SerializeObjectVectorSkips(elements, i + 1, amf_version,
                    IF v = <<>> THEN acc ELSE Append(acc, v[1]))

\* The elements of an object vector, each through serialize_value(..).expect(..):
\* <<list>>, or <<>> when an expect panicked.
SerializeObjectVector(elements, i, amf_version, acc) ==
    IF i > Len(elements) THEN <<acc>>
    ELSE LET v == Avm2SerializeValue(elements[i], amf_version)
         IN IF v = <<>> \/ v = <<Panicked>> THEN <<>>
            ELSE SerializeObjectVector(elements, i + 1, amf_version, Append(acc, v[1]))

\* The as_vector_storage arm of serialize_value
SerializeVector(vec, amf_version) ==
    LET conv(f(_)) == [i \in 1..Len(vec.elements) |-> f(vec.elements[i])]
        all(c) == \A i \in 1..Len(c) : c[i] # <<>>
        nums(c) == [i \in 1..Len(c) |-> c[i][1]]
    IN IF vec.value_type = <<IntClass>>
       THEN IF all(conv(AsInteger)) THEN AmfVectorInt(nums(conv(AsInteger)), vec.is_fixed)
            ELSE Panicked
       ELSE IF vec.value_type = <<UintClass>>
       THEN IF all(conv(AsU32)) THEN AmfVectorUInt(nums(conv(AsU32)), vec.is_fixed)
            ELSE Panicked
       ELSE IF vec.value_type = <<NumberClass>>
       THEN IF all(conv(AsNumber)) THEN AmfVectorDouble(nums(conv(AsNumber)), vec.is_fixed)
            ELSE Panicked
       ELSE LET obj_vec == SerializeObjectVector(vec.elements, 1, amf_version, <<>>)
                val_type == IF vec.value_type = <<>> THEN ObjectClass ELSE vec.value_type[1]
                name == ClassToAlias(val_type)
            IN IF obj_vec = <<>> \/ name.panic THEN Panicked
               ELSE AmfVectorObject(obj_vec[1], name.alias, vec.is_fixed)

\* The arm that attaches the class descriptor under either version.
SerializeInstanceDescribed(o, amf_version) ==
    LET class == o.class
        name == ClassToAlias(class)
        attributes == IF ~class.sealed THEN {"Dynamic"} ELSE {}
        body == Avm2RecursiveSerialize(o, TRUE, amf_version)
    IN IF name.panic \/ body.status # "Ok" THEN Panicked
       ELSE AmfObject(body.elements,
                <<ClassDefinition(name.alias, attributes, body.static_properties)>>)

\* The last arm of serialize_value: a generic class instance
SerializeInstance(o, amf_version) ==
    LET class == o.class
        name == ClassToAlias(class)
        attributes == IF ~class.sealed THEN {"Dynamic"} ELSE {}
        body == Avm2RecursiveSerialize(o, TRUE, amf_version)
    IN IF name.panic \/ body.status # "Ok" THEN Panicked
       ELSE AmfObject(body.elements,
                IF amf_version = "AMF3"
                THEN <<ClassDefinition(name.alias, attributes, body.static_properties)>>
                ELSE <<>>)

\* The arm without the display object check.
SerializeObjectNoDisplayCheck(o, amf_version) ==
    IF AsExecutable(o) THEN <<>>
    ELSE IF AsArrayStorage(o) THEN <<SerializeArray(o, amf_version)>>
    ELSE IF AsVectorStorage(o) THEN <<SerializeVector(o, amf_version)>>
    ELSE IF AsDateObject(o)
    THEN (IF o.date_time = <<>> THEN <<>> ELSE <<AmfDate(o.date_time[1])>>)
    ELSE IF AsXmlObject(o) THEN <<AmfXML(o.s, TRUE)>>
    ELSE IF AsBytearray(o) THEN <<AmfByteArray(o.bytes)>>
    ELSE <<SerializeInstance(o, amf_version)>>

\* The Value::Object arm of serialize_value: the capability checks in order.
SerializeObject(o, amf_version) ==
    IF AsExecutable(o) THEN <<>>
    ELSE IF AsDisplayObject(o) THEN <<AmfUndefined>>
    ELSE IF AsArrayStorage(o) THEN <<SerializeArray(o, amf_version)>>
    ELSE IF AsVectorStorage(o) THEN <<SerializeVector(o, amf_version)>>
    ELSE IF AsDateObject(o)
    THEN (IF o.date_time = <<>> THEN <<>> ELSE <<AmfDate(o.date_time[1])>>)
    ELSE IF AsXmlObject(o) THEN <<AmfXML(o.s, TRUE)>>
    ELSE IF AsBytearray(o) THEN <<AmfByteArray(o.bytes)>>
    ELSE <<SerializeInstance(o, amf_version)>>

\* avm2 serialize_value: <<v>> for Some(v), <<>> for None, <<Panicked>> when
\* the call panicked.
Avm2SerializeValue(elem, amf_version) ==
    CASE elem.t = "Undefined" -> <<AmfUndefined>>
      [] elem.t = "Null" -> <<AmfNull>>
      [] elem.t = "Bool" -> <<AmfBool(elem.b)>>
      [] elem.t = "Number" -> <<AmfNumber(elem.n)>>
      [] elem.t = "Integer" -> <<SerializeInteger(elem.n, amf_version)>>
      [] elem.t = "String" -> <<AmfString(elem.s)>>
      [] elem.t = "Object" -> SerializeObject(elem, amf_version)

-----------------------------------------------------------------------------
(* The AVM2 decoder.                                                       *)

\* Result<Value, Error>
Ok(v) == [ok |-> TRUE, v |-> v]
Err == [ok |-> FALSE]

AmfDictionary == [a |-> "Dictionary"]
AmfCustom == [a |-> "Custom"]
AmfReference == [a |-> "Reference"]
AmfUnsupported == [a |-> "Unsupported"]
AmfAMF3(val) == [a |-> "AMF3", val |-> val]

\* flash.net.getClassByAlias: the class registered under the alias, or a value
\* that is no class object.
GetClassByAlias(alias) ==
    IF \E r \in RegisteredAliases : r.alias = alias
    THEN <<(CHOOSE r \in RegisteredAliases : r.alias = alias).class>>
    ELSE <<>>

\* alias_to_class: Err when the lookup or the call fails, otherwise the class
\* returned, the Object class when what is returned is no class object.
AliasToClass(alias) ==
    IF ~LookupWorks THEN Err
    ELSE LET class == GetClassByAlias(alias)
         IN Ok(IF class # <<>> THEN class[1] ELSE ObjectClass)

\* The slots a class declares: the registered classes declare the slot x.
ClassSlots(class) ==
    IF class \in {PointClass, SealedClass} THEN <<Trait(<<"x">>, "slot", Undefined)>> ELSE <<>>

\* target_class.construct(activation, &[])
Construct(class) == Instance(class, ClassSlots(class), <<>>)

\* A name that is the decimal rendering of an array index.
IsIndex(name) ==
    /\ name # <<>>
    /\ \A i \in 1..Len(name) : IsDigit(name[i])
    /\ ToString(DigitsValue(name, 0)) = name

IndexOf(name) == DigitsValue(name, 0)

\* Assignment of a named property that keeps the place of a name already there
\* and appends a new name.
PutProp(props, name, value) ==
    IF \E i \in 1..Len(props) : props[i].name = name
    THEN [i \in 1..Len(props) |->
            IF props[i].name = name THEN Prop(name, value) ELSE props[i]]
    ELSE Append(props, Prop(name, value))

\* Assignment of element n of an array: the elements stay in index order, ahead
\* of the named properties.
PutElement(props, n, value) ==
    LET before == SelectSeq(props, LAMBDA p : IsIndex(p.name) /\ IndexOf(p.name) < n)
        after == SelectSeq(props, LAMBDA p : ~(IsIndex(p.name) /\ IndexOf(p.name) <= n))
    IN before \o <<Prop(ToString(n), value)>> \o after

\* TObject::set_public_property: Ok with the object after the assignment, or
\* Err (a read-only property, or a new property on an instance of a sealed class).
SetPublicProperty(obj, name, value) ==
    IF obj.kind = "array"
    THEN IF IsIndex(name)
         THEN Ok(ArrayObject(PutElement(obj.props, IndexOf(name), value),
                             IF IndexOf(name) + 1 > obj.len THEN IndexOf(name) + 1 ELSE obj.len))
         ELSE Ok(ArrayObject(PutProp(obj.props, name, value), obj.len))
    ELSE IF \E i \in 1..Len(obj.fixed) : obj.fixed[i].name = name
    THEN LET i == CHOOSE j \in 1..Len(obj.fixed) : obj.fixed[j].name = name
         IN IF obj.fixed[i].accessor \in {"slot", "set", "getset"}
            THEN Ok([obj EXCEPT !.fixed[i].value = value])
            ELSE Err
    ELSE IF obj.class.sealed THEN Err
    ELSE Ok([obj EXCEPT !.props = PutProp(obj.props, name, value)])

\* ArrayObject::from_storage(ArrayStorage::from_storage(arr))
ArrayFromStorage(arr) ==
    ArrayObject([i \in 1..Len(arr) |-> Prop(ToString(i - 1), arr[i])], Len(arr))

\* An arm that fails the decode call on a value it does not reconstruct.
NotReconstructedErr(val) == Err

\* AmfValue::Dictionary(..) | AmfValue::Custom(..) | AmfValue::Reference(_) =>
\* { tracing::error!(..); Value::Undefined }
NotReconstructed(val) == Ok(Undefined)

RECURSIVE Avm2DeserializeValue(_), DeserializeList(_, _, _), AssignElements(_, _, _)

\* for value in values { arr.push(deserialize_value(activation, value)?) }
DeserializeList(values, i, arr) ==
    IF i > Len(values) THEN Ok(arr)
    ELSE LET v == Avm2DeserializeValue(values[i])
         IN IF ~v.ok THEN Err ELSE DeserializeList(values, i + 1, Append(arr, v.v))

RECURSIVE AssignElementsReversed(_, _, _)

\* The loop run from the last element listed to the first.
AssignElementsReversed(obj, elements, i) ==
    IF i > Len(elements) THEN Ok(obj)
    ELSE LET entry == elements[Len(elements) + 1 - i]
             value == Avm2DeserializeValue(entry.value)
         IN IF ~value.ok THEN Err
            ELSE LET set == SetPublicProperty(obj, entry.name, value.v)
                 IN IF ~set.ok THEN Err ELSE AssignElementsReversed(set.v, elements, i + 1)

\* for entry in elements { obj.set_public_property(entry.name,
\* deserialize_value(activation, entry.value())?, activation)?; }
AssignElements(obj, elements, i) ==
    IF i > Len(elements) THEN Ok(obj)
    ELSE LET value == Avm2DeserializeValue(elements[i].value)
         IN IF ~value.ok THEN Err
            ELSE LET set == SetPublicProperty(obj, elements[i].name, value.v)
                 IN IF ~set.ok THEN Err ELSE AssignElements(set.v, elements, i + 1)

\* The ECMAArray arm of deserialize_value
DeserializeECMAArray(values, elements) ==
    LET arr == DeserializeList(values, 1, <<>>)
    IN IF ~arr.ok THEN Err ELSE AssignElements(ArrayFromStorage(arr.v), elements, 1)

\* The arm with the array left at its initial capacity, nothing pushed.
DeserializeStrictArrayEmpty(values) == Ok(ArrayFromStorage(<<>>))

\* The StrictArray arm of deserialize_value
DeserializeStrictArray(values) ==
    LET arr == DeserializeList(values, 1, <<>>)
    IN IF ~arr.ok THEN Err ELSE Ok(ArrayFromStorage(arr.v))

\* The Object arm of deserialize_value
DeserializeObject(elements, class) ==
    LET target_class == IF class # <<>> THEN AliasToClass(class[1].name) ELSE Ok(ObjectClass)
    IN IF ~target_class.ok THEN Err
       ELSE AssignElements(Construct(target_class.v), elements, 1)

\* The VectorObject arm of deserialize_value
DeserializeVectorObject(vec, ty_name, is_fixed) ==
    LET class == AliasToClass(ty_name)
        values == DeserializeList(vec, 1, <<>>)
    IN IF ~class.ok \/ ~values.ok THEN Err
       ELSE Ok(VectorObject(<<class.v>>, values.v, is_fixed))

\* avm2 deserialize_value
Avm2DeserializeValue(val) ==
    CASE val.a = "Null" -> Ok(Null)
      [] val.a = "Undefined" -> Ok(Undefined)
      [] val.a = "Number" -> Ok(Number(val.n))
      [] val.a = "Integer" -> Ok(Integer(val.n))
      [] val.a = "String" -> Ok(String(val.s))
      [] val.a = "Bool" -> Ok(Bool(val.b))
      [] val.a = "ByteArray" -> Ok(ByteArrayObject(val.bytes))
      [] val.a = "ECMAArray" -> DeserializeECMAArray(val.dense, val.assoc)
      [] val.a = "StrictArray" -> DeserializeStrictArray(val.dense)
      [] val.a = "Object" -> DeserializeObject(val.elements, val.class)
      [] val.a = "Date" -> Ok(DateObject(<<val.time>>))
      [] val.a = "XML" -> Ok(XmlObject(val.s))
      [] val.a = "VectorDouble" ->
            Ok(VectorObject(<<NumberClass>>, [i \in 1..Len(val.v) |-> Number(val.v[i])], val.is_fixed))
      [] val.a = "VectorUInt" ->
            Ok(VectorObject(<<UintClass>>, [i \in 1..Len(val.v) |-> Integer(val.v[i])], val.is_fixed))
      [] val.a = "VectorInt" ->
            Ok(VectorObject(<<IntClass>>, [i \in 1..Len(val.v) |-> Integer(val.v[i])], val.is_fixed))
      [] val.a = "VectorObject" -> DeserializeVectorObject(val.v, val.name, val.is_fixed)
      [] val.a \in {"Dictionary", "Custom", "Reference"} -> NotReconstructed(val)
      [] val.a = "AMF3" -> Avm2DeserializeValue(val.val)
      [] val.a = "Unsupported" -> Ok(Undefined)

\* avm2 deserialize_lso
Avm2DeserializeLso(lso) == AssignElements(Construct(ObjectClass), lso.body, 1)

-----------------------------------------------------------------------------
(* The inputs of the AVM2 encoder and decoder.                             *)

\* The properties an array of the inputs may enumerate: "0", "1", "2" and
\* "foo", each holding a string or a function.
ArrayProps ==
    { Prop(<<"0">>, String(<<"a">>)), Prop(<<"1">>, String(<<"b">>)),
      Prop(<<"2">>, String(<<"c">>)), Prop(<<"f", "o", "o">>, String(<<"b", "a", "r">>)),
      Prop(<<"0">>, FunctionObject), Prop(<<"1">>, FunctionObject),
      Prop(<<"2">>, FunctionObject), Prop(<<"f", "o", "o">>, FunctionObject) }

NamesOf(props) == {props[i].name : i \in 1..Len(props)}

\* The enumerations of at most n properties with distinct names, in every order.
RECURSIVE Enumerations(_)
Enumerations(n) ==
    IF n = 0 THEN {<<>>}
    ELSE LET shorter == Enumerations(n - 1)
         IN shorter \cup
            UNION {{Append(e, p) : p \in {q \in ArrayProps : q.name \notin NamesOf(e)}} :
                     e \in shorter}

AmfInputs ==
    {[value |-> ArrayObject(e, Len(e)), version |-> ver, lookup |-> TRUE] :
        e \in Enumerations(MaxEnum), ver \in {"AMF0", "AMF3"}}

InitAmf ==
    /\ cache = EmptyFn
    /\ handles = EmptyFn
    /\ objects = EmptyFn
    /\ storage = EmptyFn
    /\ initial = EmptyFn
    /\ flushed = EmptyFn
    /\ last = [op |-> "init"]
    /\ call = NoCall
    /\ amfIn \in AmfInputs
    /\ amfOut = NoAmf
    /\ InitRegistry

\* One run of the encoder on the input drawn.
AmfEncode ==
    /\ amfOut = NoAmf
    /\ amfOut' = [t |-> "encoded", result |-> Avm2SerializeValue(amfIn.value, amfIn.version)]
    /\ UNCHANGED <<cache, handles, objects, storage, initial, flushed, last, call, amfIn,
                 registry>>

AmfNext == AmfEncode

SpecAmf == InitAmf /\ [][AmfNext]_vars

\* The scalars drawn as encoder inputs.
CodecScalars == {Undefined, Null, Bool(TRUE), Bool(FALSE), Number(1), String(<<"a">>)}

\* The integers drawn: the ends of the i32 range, both sides of -2^28 and of
\* 2^28, and the values 100 and 300000000.
CodecIntegers ==
    { Integer(n) : n \in { I32Min, (0 - IntegerLimit) - 1, 0 - IntegerLimit, 0 - 1, 0, 100,
                           IntegerLimit - 1, IntegerLimit, 300000000, I32Max } }

\* The sequences over S of length at most n.
RECURSIVE SeqsUpTo(_, _)
SeqsUpTo(S, n) ==
    IF n = 0 THEN {<<>>}
    ELSE LET shorter == SeqsUpTo(S, n - 1)
         IN shorter \cup {Append(q, x) : q \in shorter, x \in S}

\* Longest dense array and most properties of an object drawn under SpecCodec.
MaxDense == 2
MaxProps == 2

\* Dense arrays of scalars.
DenseArrays == {ArrayFromStorage(q) : q \in SeqsUpTo(CodecScalars, MaxDense)}

\* A display object and a function, which are class instances with public
\* properties as well.
DisplayInstance ==
    [t |-> "Object", kind |-> "display", class |-> PointClass,
     fixed |-> <<Trait(<<"x">>, "slot", Number(1))>>, props |-> <<Prop(<<"y">>, Number(1))>>]
FunctionInstance ==
    [t |-> "Object", kind |-> "function", class |-> PointClass,
     fixed |-> <<>>, props |-> <<Prop(<<"y">>, Number(1))>>]

\* The objects that are no class instance with properties of their own.
CodecLeafObjects ==
    { FunctionObject, DisplayObject, DisplayInstance, FunctionInstance,
      DateObject(<<5>>), DateObject(<<>>),
      XmlObject(<<"x">>), ByteArrayObject(<<1, 2>>) }

\* The values a property of an object drawn may hold.
CodecPropValues ==
    CodecScalars \cup CodecLeafObjects
        \cup {Integer(100), Throws, ArrayFromStorage(<<Number(1), String(<<"a">>)>>),
              ArrayObject(<<Prop(<<"x">>, FunctionObject)>>, 0),
              Instance(ObjectClass, <<>>, <<Prop(<<"x">>, Number(1))>>)}

CodecPropNames == {<<"x">>, <<"y">>}

\* Lists of at most n properties with distinct names.
RECURSIVE PropLists(_)
PropLists(n) ==
    IF n = 0 THEN {<<>>}
    ELSE LET shorter == PropLists(n - 1)
         IN shorter \cup
            UNION {{Append(e, Prop(nm, v)) : nm \in CodecPropNames \ NamesOf(e), v \in CodecPropValues} :
                     e \in shorter}

\* Objects of the Object class with properties added to them.
ClasslessObjects == {Instance(ObjectClass, <<>>, e) : e \in PropLists(MaxProps)}

\* Instances of declared classes: the slot x, and for some a method, a
\* getter-only and a setter-only property, in either vtable order.
ClassInstances ==
    UNION { { Instance(c, <<Trait(<<"x">>, "slot", v)>>, <<>>),
              Instance(c, <<Trait(<<"y">>, "get", v), Trait(<<"x">>, "slot", v),
                            Trait(<<"a">>, "getset", Number(1)),
                            Trait(<<"z">>, "method", FunctionObject)>>, <<>>) } :
            c \in {PointClass, SealedClass, UnregisteredClass},
            v \in {Number(1), FunctionObject, Throws} }
    \cup { Instance(PointClass, <<Trait(<<"x">>, "slot", Number(1))>>, <<Prop(<<"y">>, v)>>) :
            v \in CodecPropValues }

\* Vectors of each element type, some holding what the type does not allow.
CodecVectors ==
    { VectorObject(<<IntClass>>, <<Integer(1), Integer(0 - 1)>>, TRUE),
      VectorObject(<<IntClass>>, <<Number(1)>>, FALSE),
      VectorObject(<<UintClass>>, <<Integer(1)>>, FALSE),
      VectorObject(<<UintClass>>, <<Integer(0 - 1)>>, FALSE),
      VectorObject(<<NumberClass>>, <<Number(1), Integer(2)>>, FALSE),
      VectorObject(<<NumberClass>>, <<String(<<"a">>)>>, FALSE),
      VectorObject(<<PointClass>>, <<Instance(PointClass, <<Trait(<<"x">>, "slot", Number(1))>>, <<>>)>>, FALSE),
      VectorObject(<<UnregisteredClass>>, <<Null>>, TRUE),
      VectorObject(<<>>, <<String(<<"a">>), FunctionObject>>, FALSE),
      VectorObject(<<>>, <<String(<<"a">>), DisplayObject>>, FALSE) }

CodecValues ==
    CodecScalars \cup CodecIntegers \cup DenseArrays \cup CodecLeafObjects
        \cup ClasslessObjects \cup ClassInstances \cup CodecVectors

\* The wire values drawn as elements of the containers decoded.
WireLeaves == {AmfNumber(1), AmfString(<<"a">>), AmfDictionary, AmfCustom, AmfReference}

\* Containers drawn as elements of other containers.
WireNested ==
    { AmfObject(<<Element(<<"x">>, AmfReference), Element(<<"y">>, AmfNumber(1))>>, <<>>),
      AmfStrictArray(<<AmfCustom, AmfNumber(1)>>),
      AmfECMAArray(<<AmfDictionary>>, <<Element(<<"x">>, AmfReference)>>, 1),
      AmfVectorObject(<<AmfNumber(1)>>, <<"z">>, FALSE) }

WireNames == {<<"x">>, <<"0">>, <<"1">>}

\* Longest element list drawn under SpecCodec.
MaxElements == 2

\* Element lists over the leaves, a name possibly listed twice, and lists
\* with a nested container ahead of a sibling.
WireElementLists ==
    SeqsUpTo({Element(nm, v) : nm \in WireNames, v \in WireLeaves}, MaxElements)
        \cup {<<Element(<<"x">>, n), Element(<<"y">>, AmfNumber(1))>> : n \in WireNested}

\* The class descriptors drawn: none, a registered alias, an alias nobody
\* registered, the empty alias.
WireClasses ==
    { <<>>, <<ClassDefinition(<<"p">>, {"Dynamic"}, <<>>)>>,
      <<ClassDefinition(<<"z">>, {"Dynamic"}, <<>>)>>, <<ClassDefinition(<<>>, {"Dynamic"}, <<>>)>> }

WireValues ==
    WireLeaves \cup WireNested \cup {AmfUndefined, AmfNull, AmfBool(TRUE), AmfInteger(1), AmfUnsupported,
                     AmfAMF3(AmfReference), AmfAMF3(AmfNumber(1)), AmfDate(5), AmfXML(<<"x">>, TRUE),
                     AmfByteArray(<<1, 2>>), AmfVectorInt(<<1>>, TRUE), AmfVectorUInt(<<1>>, FALSE),
                     AmfVectorDouble(<<1>>, FALSE)}
        \cup {AmfObject(e, c) : e \in WireElementLists, c \in WireClasses}
        \cup {AmfECMAArray(d, e, Len(e)) : d \in SeqsUpTo({AmfNumber(1), AmfReference}, 1),
                                           e \in WireElementLists}
        \cup {AmfStrictArray(d) : d \in SeqsUpTo(WireLeaves \cup WireNested, MaxDense)}
        \cup {AmfVectorObject(d, nm, FALSE) : d \in SeqsUpTo(WireLeaves \cup WireNested, 1),
                                             nm \in {<<"p">>, <<"z">>, <<>>}}

\* The values a property of an AVM1 object drawn may hold.
Avm1PropValues ==
    CodecScalars \cup {MovieClip, FunctionObject, DisplayObject, GetFails, XmlNode(<<"x">>),
                       Avm1Date(5), PlainObject(<<Prop(<<"x">>, FunctionObject)>>),
                       PlainObject(<<Prop(<<"x">>, Number(1)), Prop(<<"y">>, FunctionObject),
                                     Prop(<<"z">>, Null)>>)}

RECURSIVE Avm1PropLists(_)
Avm1PropLists(n) ==
    IF n = 0 THEN {<<>>}
    ELSE LET shorter == Avm1PropLists(n - 1)
         IN shorter \cup
            UNION {{Append(e, Prop(nm, v)) : nm \in CodecPropNames \ NamesOf(e), v \in Avm1PropValues} :
                     e \in shorter}

\* The AVM1 values drawn as inputs of the AVM1 encoder.
Avm1Values ==
    (Avm1PropValues \ {GetFails})
        \cup {PlainObject(e) : e \in Avm1PropLists(MaxProps)}
        \cup {ArrayObject(e, Len(e)) : e \in Avm1PropLists(MaxProps)}

CodecInputs ==
    {[dir |-> "encode", value |-> v, version |-> ver, lookup |-> l] :
        v \in CodecValues, ver \in {"AMF0", "AMF3"}, l \in BOOLEAN}
    \cup {[dir |-> "encode1", value |-> v, lookup |-> TRUE] : v \in Avm1Values}
    \cup {[dir |-> "decode", wire |-> w, lookup |-> l] : w \in WireValues, l \in BOOLEAN}
    \cup {[dir |-> "lso", lso |-> Lso(e, <<"a">>, "AMF3"), lookup |-> l] :
            e \in WireElementLists, l \in BOOLEAN}

InitCodec ==
    /\ cache = EmptyFn
    /\ handles = EmptyFn
    /\ objects = EmptyFn
    /\ storage = EmptyFn
    /\ initial = EmptyFn
    /\ flushed = EmptyFn
    /\ last = [op |-> "init"]
    /\ call = NoCall
    /\ amfIn \in CodecInputs
    /\ amfOut = NoAmf
    /\ InitRegistry

\* serialize_value on the value drawn.
CodecEncode ==
    /\ amfIn.dir = "encode"
    /\ amfOut = NoAmf
    /\ amfOut' = [t |-> "encoded", result |-> Avm2SerializeValue(amfIn.value, amfIn.version)]
    /\ UNCHANGED <<cache, handles, objects, storage, initial, flushed, last, call, amfIn,
                 registry>>

\* avm1 serialize_value on the AVM1 value drawn.
Avm1Encode ==
    /\ amfIn.dir = "encode1"
    /\ amfOut = NoAmf
    /\ amfOut' = [t |-> "encoded1", result |-> Avm1SerializeValue(amfIn.value)]
    /\ UNCHANGED <<cache, handles, objects, storage, initial, flushed, last, call, amfIn,
                 registry>>

\* deserialize_value on what serialize_value returned.
CodecDecode ==
    /\ amfOut.t = "encoded"
    /\ amfOut.result # <<>>
    /\ amfOut.result # <<Panicked>>
    /\ amfOut' = [t |-> "decoded", result |-> amfOut.result,
                  back |-> Avm2DeserializeValue(amfOut.result[1])]
    /\ UNCHANGED <<cache, handles, objects, storage, initial, flushed, last, call, amfIn,
                 registry>>

\* The decoders of both machines on the wire value drawn.
WireDecode ==
    /\ amfIn.dir = "decode"
    /\ amfOut = NoAmf
    /\ amfOut' = [t |-> "wire_decoded", back |-> Avm2DeserializeValue(amfIn.wire),
                  avm1 |-> Avm1DeserializeValue(amfIn.wire)]
    /\ UNCHANGED <<cache, handles, objects, storage, initial, flushed, last, call, amfIn,
                 registry>>

\* deserialize_lso of both machines on the container drawn.
LsoDecode ==
    /\ amfIn.dir = "lso"
    /\ amfOut = NoAmf
    /\ amfOut' = [t |-> "lso_decoded", back |-> Avm2DeserializeLso(amfIn.lso),
                  avm1 |-> Avm1DeserializeLso(amfIn.lso)]
    /\ UNCHANGED <<cache, handles, objects, storage, initial, flushed, last, call, amfIn,
                 registry>>

CodecNext ==
    \/ CodecEncode
    \/ Avm1Encode
    \/ CodecDecode
    \/ WireDecode
    \/ LsoDecode

SpecCodec == InitCodec /\ [][CodecNext]_vars

-----------------------------------------------------------------------------
(* Claims about key derivation, checked under SpecKey.                     *)

IsHandle(v) == v.t = "Handle"

\* One leading and one trailing "/" trimmed.
TrimSlashes(s) ==
    LET a == IF Len(s) > 0 /\ s[1] = "/" THEN SubSeq(s, 2, Len(s)) ELSE s
    IN IF Len(a) > 0 /\ a[Len(a)] = "/" THEN SubSeq(a, 1, Len(a) - 1) ELSE a

\* The movie path as the specification words it.
StatedMoviePath(url) ==
    LET p == TrimSlashes(url.path)
    IN IF url.scheme = "file" /\ Len(p) >= 3 /\ p[2] = ":" /\ p[3] = "/"
       THEN SubSeq(p, 4, Len(p)) ELSE p

StatedHost(url) == IF url.scheme = "file" THEN Localhost ELSE url.host

StatedPrefix(name) == IF \E i \in 1..Len(name) : name[i] = "/" THEN <<"#">> ELSE <<>>

StatedKey(c) ==
    LET local_path == IF c.lp.isString THEN TrimSlashes(c.lp.s) ELSE StatedMoviePath(c.url)
    IN StatedHost(c.url) \o <<"/">> \o local_path \o <<"/">> \o StatedPrefix(c.name) \o c.name

ExampleKey ==
    ExampleHost \o <<"/", "g", "a", "m", "e", ".", "s", "w", "f", "/", "d", "a", "t", "a">>

\* C4: every accepted getLocal call derives the key host/local_path/prefix+name,
\* with prefix "#" exactly when the name contains "/", local_path the trimmed
\* movie path when there is no override (the drive-letter segment removed for a
\* file URL), host "localhost" for a file URL and the URL's host otherwise; and
\* https://example.com/game.swf with name "data" gives example.com/game.swf/data.
C4_KeyDerivation ==
    /\ (call.called /\ IsHandle(last.res)) =>
          /\ handles[last.res.h].name = StatedKey(call)
          /\ StatedKey(call) \in DOMAIN cache
          /\ cache[StatedKey(call)] = last.res.h
    /\ (call.called /\ call = Call(ExampleName, ExampleUrl, NoPath, FALSE)) =>
          /\ IsHandle(last.res)
          /\ handles[last.res.h].name = ExampleKey

C4_Witness ==
    /\ call.called
    /\ IsHandle(last.res)
    /\ call.url.scheme = "file"
    /\ call.url.path = <<"/", "c", ":", "/", "a", "/", "a">>
    /\ call.name = <<"a", "/", "a">>
    /\ ~call.lp.isString
    /\ handles[last.res.h].name = Localhost \o <<"/", "a", "/", "a", "/", "#", "a", "/", "a">>

\* The override is a path prefix of the movie path at a segment boundary.
SegmentPrefix(movie_path, p) ==
    \/ p = movie_path
    \/ /\ Len(p) < Len(movie_path)
       /\ SubSeq(movie_path, 1, Len(p)) = p
       /\ movie_path[Len(p) + 1] = "/"

\* C5 as stated: a string override is accepted only if it is non-empty and,
\* trimmed, equals the movie path or is a prefix of it followed by "/"; in every
\* other case getLocal returns Null.
C5_OverrideAsStated ==
    (call.called /\ call.lp.isString /\ call.url.ok) =>
        LET ok == /\ call.lp.s # <<>>
                  /\ SegmentPrefix(StatedMoviePath(call.url), TrimSlashes(call.lp.s))
        IN ~ok => last.res = Null

\* C5, amended: a string override is accepted only if it is non-empty and,
\* trimmed, is empty (the override was "/" or "//"), equals the movie path or is
\* a prefix of it followed by "/"; in every other case getLocal returns Null.
C5_Override ==
    (call.called /\ call.lp.isString /\ call.url.ok) =>
        LET ok == /\ call.lp.s # <<>>
                  /\ \/ TrimSlashes(call.lp.s) = <<>>
                     \/ SegmentPrefix(StatedMoviePath(call.url), TrimSlashes(call.lp.s))
        IN ~ok => last.res = Null

\* The override "a" against the movie path "aa": a string prefix, no path prefix.
C5_Witness ==
    /\ call.called
    /\ call.lp = PathArg(<<"a">>)
    /\ call.url.ok
    /\ StatedMoviePath(call.url) = <<"a", "a">>
    /\ call.name = <<"a">>
    /\ ~call.secure
    /\ last.res = Null

ForbiddenChars == {"~", "%", "&", "\\", ";", ":", "\"", "'", ",", "<", ">", "?", "#", " "}

\* C7: getLocal returns Null whenever the name contains one of the characters
\* ~ % & \ ; : " ' , < > ? # or a space, whatever the URL, the override and the
\* secure flag are.
C7_ForbiddenCharacters ==
    (call.called /\ \E i \in 1..Len(call.name) : call.name[i] \in ForbiddenChars)
        => last.res = Null

C7_Witness ==
    /\ call.called
    /\ call.name = <<"a", "#">>
    /\ call.url = ExampleUrl
    /\ call.lp = NoPath
    /\ ~call.secure
    /\ last.res = Null

-----------------------------------------------------------------------------
(* Claims about the store, checked under Spec.                             *)

\* C1: within a session the cache holds at most one entry (and one handle) per
\* storage key, an entry once inserted is never removed or replaced, and every
\* getLocal call that derives a key returns the handle the cache holds for it,
\* so two calls that derive the same key return the same handle and data object.
C1_CacheSharing ==
    /\ [](\A h1 \in DOMAIN handles, h2 \in DOMAIN handles :
            handles[h1].name = handles[h2].name => h1 = h2)
    /\ [](\A k \in DOMAIN cache : cache[k] \in DOMAIN handles /\ handles[cache[k]].name = k)
    /\ []((last.op = "get_local" /\ IsHandle(last.res)) =>
            /\ last.composed[1] \in DOMAIN cache
            /\ cache[last.composed[1]] = last.res.h)
    /\ [][last'.op # "new_session" =>
            \A k \in DOMAIN cache :
                /\ k \in DOMAIN cache'
                /\ cache'[k] = cache[k]
                /\ handles'[cache[k]] = handles[cache[k]]]_vars

\* A second lookup returned the cached handle, whose data object holds a
\* property written through the first.
C1_Witness ==
    /\ last.op = "get_local"
    /\ last.hit
    /\ IsHandle(last.res)
    /\ objects[handles[last.res.h].data] # <<>>
    /\ Cardinality(DOMAIN cache) = 2

\* C2: after clear() on a handle the data object has no property left, the
\* backend has no entry under the handle's key, the handle still refers to the
\* same data object and the cache still maps the key to the same handle.
C2_Clear ==
    /\ [](last.op = "clear" =>
            /\ objects[handles[last.this].data] = <<>>
            /\ handles[last.this].name \notin DOMAIN storage
            /\ handles[last.this].name \in DOMAIN cache
            /\ cache[handles[last.this].name] = last.this)
    /\ [][last'.op = "clear" => (handles' = handles /\ cache' = cache)]_vars

C2_Witness ==
    /\ last.op = "clear"
    /\ last.deleted > 0
    /\ last.existed
    /\ objects[handles[last.this].data] = <<>>

RECURSIVE Canon(_), PropMap(_)

\* A property list as a map from names to values, the order left out.
PropMap(props) ==
    [n \in {props[i].name : i \in 1..Len(props)} |->
        Canon((props[CHOOSE i \in 1..Len(props) : props[i].name = n]).value)]

Canon(v) ==
    IF v.t = "Object"
    THEN [t |-> "Object", kind |-> v.kind, len |-> v.len, map |-> PropMap(v.props)]
    ELSE v

\* A lookup that found no cache entry and bytes a flush stored.
ReloadedAfterFlush ==
    /\ last.op = "get_local"
    /\ IsHandle(last.res)
    /\ ~last.hit
    /\ last.composed[1] \in DOMAIN flushed

\* C3: after a flush that stored, a lookup with the same key in a new session
\* gives a data object with the same property names and the same values as the
\* data object had at the flush.
C3_FlushRoundTrip ==
    ReloadedAfterFlush =>
        PropMap(objects[handles[last.res.h].data]) = PropMap(flushed[last.composed[1]])

\* A property of the list has a getter that fails.
HasFailingGetter(props) == \E i \in 1..Len(props) : props[i].value = GetFails

\* C15: when a getter of the data object fails during the serialization that
\* flush() performs, the call ends with an error instead of a boolean result
\* and the backend does not hold the bytes of the element list that leaves the
\* failing property out.
C15_GetterFailureAborts ==
    (last.op = "flush" /\ HasFailingGetter(objects[handles[last.this].data]))
        => /\ last.res \notin {Bool(TRUE), Bool(FALSE)}
           /\ (handles[last.this].name \in DOMAIN storage
                  => storage[handles[last.this].name] # last.bytes)

\* A key has a "/"-delimited segment that starts with ".".
DotSegment(k) ==
    \/ (Len(k) > 0 /\ k[1] = ".")
    \/ \E i \in 1..(Len(k) - 1) : k[i] = "/" /\ k[i + 1] = "."

LastStorageKeys == IF last.op \in {"get_local", "flush", "clear"} THEN last.skeys ELSE {}

\* C6: no key of the cache and no key passed to the backend's get, put or
\* remove_key has a segment that starts with "."; a getLocal call whose composed
\* key has such a segment returns Null.
C6_NoDotSegments ==
    /\ \A k \in DOMAIN cache : ~DotSegment(k)
    /\ \A k \in LastStorageKeys : ~DotSegment(k)
    /\ \A k \in DOMAIN storage : ~DotSegment(k)
    /\ (last.op = "get_local" /\ last.composed # <<>> /\ DotSegment(last.composed[1]))
          => last.res = Null

C6_Witness ==
    /\ last.op = "get_local"
    /\ last.composed = << HostH \o <<"/", "g", "/", ".", "a">> >>
    /\ last.res = Null
    /\ cache # EmptyFn

\* C8: with the secure argument true, getLocal returns a handle only if the
\* movie's scheme is https, and Null for every other scheme, also when the key
\* is cached from an earlier call that was not secure.
C8_SecureOnlyHttps ==
    (last.op = "get_local" /\ last.secure /\ last.scheme # "https") => last.res = Null

C8_Witness ==
    /\ last.op = "get_local"
    /\ last.secure
    /\ last.scheme = "http"
    /\ last.res = Null
    /\ KeyHA \in DOMAIN cache

\* C9: flush() returns the boolean the backend's put returned for the handle's
\* key: false when the backend failed, true only if the backend holds the bytes.
C9_FlushReturnsPutResult ==
    last.op = "flush" =>
        /\ last.res = Bool(last.put)
        /\ last.skeys = {handles[last.this].name}
        /\ last.res = Bool(TRUE) =>
              /\ handles[last.this].name \in DOMAIN storage
              /\ storage[handles[last.this].name] = last.bytes

C9_Witness ==
    /\ last.op = "flush"
    /\ ~last.put
    /\ last.res = Bool(FALSE)
    /\ objects[handles[last.this].data] # <<>>
    /\ handles[last.this].name \notin DOMAIN storage

-----------------------------------------------------------------------------
(* Claims about the AVM2 encoder, checked under SpecAmf.                   *)

Encoded == amfOut # NoAmf

\* The elements the encoder serialized for the array drawn: its enumeration
\* without the properties that hold a function.
SerializedElements ==
    LET kept == SelectSeq(amfIn.value.props, LAMBDA p : p.value # FunctionObject)
    IN [i \in 1..Len(kept) |-> Element(kept[i].name, AmfString(kept[i].value.s))]

OutDense == amfOut.result[1].dense
OutSparse == IF amfOut.result[1].a = "StrictArray" THEN <<>> ELSE amfOut.result[1].assoc

\* The subsequence of the elements at the positions in keep.
RECURSIVE Pick(_, _, _)
Pick(elems, keep, i) ==
    IF i > Len(elems) THEN <<>>
    ELSE (IF i \in keep THEN <<elems[i]>> ELSE <<>>) \o Pick(elems, keep, i + 1)

ValuesOf(elems) == [i \in 1..Len(elems) |-> elems[i].value]

\* The positions that go to the dense list when a name is compared with the
\* number of elements already placed there.
RECURSIVE DenseByCount(_, _, _)
DenseByCount(elems, i, placed) ==
    IF i > Len(elems) THEN placed
    ELSE DenseByCount(elems, i + 1,
            IF elems[i].name = ToString(Cardinality(placed)) THEN placed \cup {i} ELSE placed)

\* The positions whose name is the decimal rendering of the position itself,
\* counted from 0 over all the serialized elements.
DenseByIndex(elems) == {i \in 1..Len(elems) : elems[i].name = ToString(i - 1)}

ExampleArray ==
    ArrayObject(<<Prop(<<"0">>, String(<<"a">>)), Prop(<<"1">>, String(<<"b">>)),
                  Prop(<<"2">>, String(<<"c">>)),
                  Prop(<<"f", "o", "o">>, String(<<"b", "a", "r">>))>>, 4)

ExampleHolds ==
    (Encoded /\ amfIn.value = ExampleArray) =>
        /\ OutDense = <<AmfString(<<"a">>), AmfString(<<"b">>), AmfString(<<"c">>)>>
        /\ OutSparse = <<Element(<<"f", "o", "o">>, AmfString(<<"b", "a", "r">>))>>

-----------------------------------------------------------------------------
(* Claims about the AVM2 codec, checked under SpecCodec.                   *)

EncodedValue == amfOut.t = "encoded"

\* C11: for every 32-bit integer n the encoder emits Integer(n) if and only if
\* the version is AMF3 and -2^28 <= n < 2^28, and Number(n) in every other
\* case; 100 under AMF3 is Integer, 300000000 under AMF3 is Number, and every
\* integer under AMF0 is Number.
C11_IntegerRange ==
    (EncodedValue /\ amfIn.value.t = "Integer") =>
        LET n == amfIn.value.n
            inRange == 0 - 2^28 <= n /\ n < 2^28
        IN /\ I32Min <= n /\ n <= I32Max
           /\ (amfOut.result = <<AmfInteger(n)>>) <=> (amfIn.version = "AMF3" /\ inRange)
           /\ ~(amfIn.version = "AMF3" /\ inRange) => amfOut.result = <<AmfNumber(n)>>
           /\ (n = 100 /\ amfIn.version = "AMF3") => amfOut.result[1].a = "Integer"
           /\ (n = 300000000 /\ amfIn.version = "AMF3") => amfOut.result[1].a = "Number"
           /\ amfIn.version = "AMF0" => amfOut.result[1].a = "Number"

\* 2^28 itself, encoded under AMF3, comes out as a Number.
C11_Witness ==
    /\ EncodedValue
    /\ amfIn.value = Integer(2^28)
    /\ amfIn.version = "AMF3"
    /\ amfOut.result = <<AmfNumber(2^28)>>

Scalar(v) == v.t \in {"Undefined", "Null", "Bool", "Number", "String"}

\* A dense array of scalars: the elements 0 .. len - 1 and nothing else.
DenseScalarArray(v) ==
    /\ v.t = "Object" /\ v.kind = "array"
    /\ v.len = Len(v.props)
    /\ \A i \in 1..Len(v.props) : v.props[i].name = ToString(i - 1) /\ Scalar(v.props[i].value)

\* The values C12 is about: scalars, dense arrays of scalars, and objects of
\* no declared class whose properties hold such values.
RECURSIVE RoundTripValue(_)
RoundTripValue(v) ==
    \/ Scalar(v)
    \/ DenseScalarArray(v)
    \/ /\ v.t = "Object" /\ v.kind = "instance"
       /\ v.class = ObjectClass /\ v.fixed = <<>>
       /\ \A i \in 1..Len(v.props) : RoundTripValue(v.props[i].value)

\* Equality of two values: the same scalar, or objects of the same kind with
\* the same property names holding equal values.
RECURSIVE SameValue(_, _)
SameValue(v, w) ==
    IF v.t # "Object" THEN v = w
    ELSE /\ w.t = "Object" /\ w.kind = v.kind
         /\ NamesOf(v.props) = NamesOf(w.props)
         /\ Len(v.props) = Len(w.props)
         /\ v.kind = "array" => w.len = v.len
         /\ v.kind = "instance" => (w.class = v.class /\ w.fixed = v.fixed)
         /\ \A i \in 1..Len(v.props) : \E j \in 1..Len(w.props) :
                /\ w.props[j].name = v.props[i].name
                /\ SameValue(v.props[i].value, w.props[j].value)

\* C12: for every value v that is Undefined, Null, a Bool, a Number, a String,
\* a dense array of such scalars, or a class-less object whose properties are
\* such values, serialize_value gives a wire value and deserialize_value of it
\* gives a value equal to v, under AMF0 and under AMF3.
C12_RoundTrip ==
    /\ (EncodedValue /\ RoundTripValue(amfIn.value) /\ (LookupWorks \/ amfIn.value.t # "Object"
            \/ amfIn.value.kind = "array")) =>
            (amfOut.result # <<>> /\ amfOut.result # <<Panicked>>)
    /\ (amfOut.t = "decoded" /\ RoundTripValue(amfIn.value)) =>
            (amfOut.back.ok /\ SameValue(amfIn.value, amfOut.back.v))

\* A class-less object holding a dense array and a string came back under AMF3.
C12_Witness ==
    /\ amfOut.t = "decoded"
    /\ amfIn.version = "AMF3"
    /\ amfIn.value = Instance(ObjectClass, <<>>,
            <<Prop(<<"x">>, ArrayFromStorage(<<Number(1), String(<<"a">>)>>)),
              Prop(<<"y">>, String(<<"a">>))>>)
    /\ amfOut.back.ok
    /\ amfOut.back.v = amfIn.value

IsFunction(v) == v.t = "Object" /\ v.kind = "function"
IsDisplay(v) == v.t = "Object" /\ v.kind = "display"

\* An encoder of either machine returned (it did not panic).
EncoderReturned ==
    \/ EncodedValue /\ amfOut.result # <<Panicked>>
    \/ amfOut.t = "encoded1"

\* The names listed in the wire value of an object or array: an array's dense
\* values are listed under their positions.
ListedNames(w) ==
    CASE w.a = "Object" -> {w.elements[i].name : i \in 1..Len(w.elements)}
      [] w.a = "StrictArray" -> {ToString(i - 1) : i \in 1..Len(w.dense)}
      [] w.a = "ECMAArray" -> {w.assoc[i].name : i \in 1..Len(w.assoc)}
      [] OTHER -> {}

\* The names of the properties of the object drawn whose own encoding is a
\* value: not None, and for AVM1 not behind a failing getter.
EncodablePropNames ==
    LET v == amfIn.value
    IN IF amfIn.dir = "encode1"
       THEN {v.props[i].name : i \in {j \in 1..Len(v.props) :
                /\ v.props[j].value # GetFails
                /\ Avm1SerializeValue(v.props[j].value) # <<>>}}
       ELSE {v.props[i].name : i \in {j \in 1..Len(v.props) :
                Avm2SerializeValue(v.props[j].value, amfIn.version) # <<>>}}

\* An object drawn whose element list comes from its enumerated properties
\* alone: an array, an AVM1 object, an instance without fixed properties.
EnclosesProps(v) ==
    /\ v.t = "Object"
    /\ \/ v.kind \in {"array", "plain"}
       \/ v.kind = "instance" /\ v.fixed = <<>>

\* In an ECMAArray the dense values count as listed under their positions.
OmissionHolds ==
    (EncoderReturned /\ EnclosesProps(amfIn.value)) =>
        LET w == amfOut.result[1]
        IN IF w.a = "ECMAArray"
           THEN ListedNames(w) \subseteq EncodablePropNames
                /\ Cardinality(EncodablePropNames) = Len(w.dense) + Len(w.assoc)
           ELSE ListedNames(w) = EncodablePropNames

InvalidDate(v) == v.t = "Object" /\ v.kind = "date" /\ amfIn.dir = "encode" /\ v.date_time = <<>>

RegistryAlias(class) ==
    CASE class = PointClass -> <<"p">>
      [] class = SealedClass -> <<"s">>
      [] OTHER -> <<>>

\* C14: the Object the AVM2 encoder gives for a generic class instance carries
\* a class descriptor if and only if the version is AMF3; the descriptor's
\* name is the alias the registry returns for the instance's class, and its
\* attribute set contains Dynamic if and only if the class is not sealed.
C14_ClassDescriptor ==
    (EncodedValue /\ amfIn.value.t = "Object" /\ amfIn.value.kind = "instance"
        /\ amfOut.result # <<Panicked>>) =>
        LET w == amfOut.result[1]
        IN /\ w.a = "Object"
           /\ (w.class # <<>>) <=> (amfIn.version = "AMF3")
           /\ w.class # <<>> =>
                /\ w.class[1].name = RegistryAlias(amfIn.value.class)
                /\ ("Dynamic" \in w.class[1].attributes) <=> ~amfIn.value.class.sealed

\* An instance of the sealed class registered as "s", encoded under AMF3 with
\* a descriptor that is not Dynamic.
C14_Witness ==
    /\ EncodedValue
    /\ amfIn.value.t = "Object" /\ amfIn.value.kind = "instance"
    /\ amfIn.value.class = SealedClass
    /\ amfOut.result # <<Panicked>>
    /\ amfIn.version = "AMF3"
    /\ amfOut.result[1].class # <<>>
    /\ amfOut.result[1].class[1].name = <<"s">>
    /\ amfOut.result[1].class[1].attributes = {}


\* The wire values the decoders recognize and do not reconstruct.
UnsupportedTags == {"Dictionary", "Custom", "Reference"}

RECURSIVE Supported(_)

\* The wire value with Undefined in the place of every Dictionary, Custom and
\* Reference it holds, at any depth.
Supported(w) ==
    CASE w.a \in UnsupportedTags -> AmfUndefined
      [] w.a = "Object" ->
            AmfObject([i \in 1..Len(w.elements) |->
                          Element(w.elements[i].name, Supported(w.elements[i].value))], w.class)
      [] w.a = "ECMAArray" ->
            AmfECMAArray([i \in 1..Len(w.dense) |-> Supported(w.dense[i])],
                         [i \in 1..Len(w.assoc) |->
                             Element(w.assoc[i].name, Supported(w.assoc[i].value))], w.len)
      [] w.a = "StrictArray" -> AmfStrictArray([i \in 1..Len(w.dense) |-> Supported(w.dense[i])])
      [] w.a = "VectorObject" ->
            AmfVectorObject([i \in 1..Len(w.v) |-> Supported(w.v[i])], w.name, w.is_fixed)
      [] w.a = "AMF3" -> AmfAMF3(Supported(w.val))
      [] OTHER -> w

SupportedLso(lso) ==
    Lso([i \in 1..Len(lso.body) |-> Element(lso.body[i].name, Supported(lso.body[i].value))],
        lso.name, lso.version)

\* C16: a Dictionary, Custom or Reference wire value decodes to Undefined and
\* never to an error, in both decoders and at every depth: a wire value, or a
\* stored container, decodes to what it decodes to with Undefined in the place
\* of each such value, and it decodes without error whenever the alias lookup
\* works.
C16_UnsupportedTagsDecodeToUndefined ==
    /\ amfOut.t = "wire_decoded" =>
          /\ amfIn.wire.a \in UnsupportedTags =>
                (amfOut.back = Ok(Undefined) /\ amfOut.avm1 = Undefined)
          /\ amfOut.back = Avm2DeserializeValue(Supported(amfIn.wire))
          /\ amfOut.avm1 = Avm1DeserializeValue(Supported(amfIn.wire))
          /\ amfIn.lookup => amfOut.back.ok
    /\ amfOut.t = "lso_decoded" =>
          /\ amfOut.back = Avm2DeserializeLso(SupportedLso(amfIn.lso))
          /\ amfOut.avm1 = Avm1DeserializeLso(SupportedLso(amfIn.lso))
          /\ amfIn.lookup => amfOut.back.ok

\* An Object whose property x is an Object that holds a Reference ahead of a
\* number, decoded by both machines.
C16_Witness ==
    /\ amfOut.t = "wire_decoded"
    /\ amfIn.wire =
          AmfObject(<<Element(<<"x">>, AmfObject(<<Element(<<"x">>, AmfReference),
                                                   Element(<<"y">>, AmfNumber(1))>>, <<>>)),
                      Element(<<"y">>, AmfNumber(1))>>, <<>>)
    /\ amfOut.back =
          Ok(Instance(ObjectClass, <<>>,
                <<Prop(<<"x">>, Instance(ObjectClass, <<>>,
                                    <<Prop(<<"x">>, Undefined), Prop(<<"y">>, Number(1))>>)),
                  Prop(<<"y">>, Number(1))>>))
    /\ amfOut.avm1 =
          PlainObject(<<Prop(<<"x">>, PlainObject(<<Prop(<<"x">>, Undefined),
                                                     Prop(<<"y">>, Number(1))>>)),
                        Prop(<<"y">>, Number(1))>>)

\* An instance of a declared class whose only property is the slot x = 1.
PlainClassInstance(v) ==
    \E c \in {PointClass, SealedClass, UnregisteredClass} :
        v = Instance(c, <<Trait(<<"x">>, "slot", Number(1))>>, <<>>)

\* C17: a failing alias lookup is an error of the decode call for a wire
\* Object that names a class, and an empty alias in the value the encode call
\* still returns for a class instance; with a working lookup an unregistered
\* or empty alias decodes to an instance of the Object class and an instance
\* of an unregistered class encodes with the empty alias.
C17_AliasLookupAsymmetry ==
    /\ (amfOut.t = "wire_decoded" /\ amfIn.wire.a = "Object" /\ amfIn.wire.class # <<>>) =>
          IF ~amfIn.lookup THEN amfOut.back = Err
          ELSE /\ amfOut.back.ok
               /\ amfIn.wire.class[1].name \in {<<"z">>, <<>>} =>
                     amfOut.back.v.class = ObjectClass
    /\ (EncodedValue /\ amfIn.version = "AMF3" /\ PlainClassInstance(amfIn.value)) =>
          /\ amfOut.result # <<>>
          /\ amfOut.result # <<Panicked>>
          /\ ~amfIn.lookup => amfOut.result[1].class[1].name = <<>>
          /\ amfIn.value.class = UnregisteredClass => amfOut.result[1].class[1].name = <<>>

\* The part of C17 that the code keeps: everything but the encode call under a
\* failing lookup.
C17_WithWorkingEncodeLookup ==
    (EncodedValue /\ ~amfIn.lookup) \/ C17_AliasLookupAsymmetry

\* One of the elements listed is a VectorObject.
ListsVectorObject(elements) == \E i \in 1..Len(elements) : elements[i].value.a = "VectorObject"

\* C18: the decode of a VectorObject returns a value whether or not its
\* element-type name can be looked up, and so does the decode of a class-less
\* Object, or of a stored container, that lists a VectorObject.
C18_VectorTypeLookupFailure ==
    /\ (amfOut.t = "wire_decoded" /\ amfIn.wire.a = "VectorObject") => amfOut.back.ok
    /\ (amfOut.t = "wire_decoded" /\ amfIn.wire.a = "Object" /\ amfIn.wire.class = <<>>
           /\ ListsVectorObject(amfIn.wire.elements)) => amfOut.back.ok
    /\ (amfOut.t = "lso_decoded" /\ ListsVectorObject(amfIn.lso.body)) => amfOut.back.ok

\* What the code keeps of C18: with a working lookup an element-type name that
\* no class is registered under gives a vector of the Object class.
C18_UnregisteredElementType ==
    (amfOut.t = "wire_decoded" /\ amfIn.wire.a = "VectorObject" /\ amfIn.lookup
        /\ amfIn.wire.name \in {<<"z">>, <<>>}) =>
        /\ amfOut.back.ok
        /\ amfOut.back.v.kind = "vector"
        /\ amfOut.back.v.value_type = <<ObjectClass>>
        /\ Len(amfOut.back.v.elements) = Len(amfIn.wire.v)

\* A lookup that derived a key the cache did not hold.
DerivedUncachedKey ==
    /\ last.op = "get_local"
    /\ last.composed # <<>>
    /\ ~HasDotSegment(last.composed[1])
    /\ ~last.hit

\* C19: a getLocal call that derives a valid key the cache does not hold
\* returns a handle, the cache then maps the key to that handle, and the
\* handle's data object is the decoded stored container when the backend holds
\* bytes for the key that parse, and an empty object when it holds none or
\* holds bytes that do not parse.
C19_GetLocalMiss ==
    DerivedUncachedKey =>
        LET key == last.composed[1]
        IN /\ IsHandle(last.res)
           /\ key \in DOMAIN cache
           /\ cache[key] = last.res.h
           /\ handles[last.res.h].name = key
           /\ objects[handles[last.res.h].data] =
                 IF key \in DOMAIN storage /\ ParseBytes(storage[key]) # <<>>
                 THEN Avm1DeserializeLso(ParseBytes(storage[key])[1])
                 ELSE <<>>

\* A miss on a key whose stored bytes parse to a container with a property.
C19_Witness ==
    /\ DerivedUncachedKey
    /\ last.composed[1] \in DOMAIN storage
    /\ ParseBytes(storage[last.composed[1]]) # <<>>
    /\ IsHandle(last.res)
    /\ objects[handles[last.res.h].data] = <<Prop(<<"x">>, Number(1))>>

\* What reading the public property name of a decoded object gives.
PropertyOf(obj, name) ==
    IF obj.kind = "instance" /\ \E i \in 1..Len(obj.fixed) : obj.fixed[i].name = name
    THEN (obj.fixed[CHOOSE i \in 1..Len(obj.fixed) : obj.fixed[i].name = name]).value
    ELSE IF \E i \in 1..Len(obj.props) : obj.props[i].name = name
    THEN (obj.props[CHOOSE i \in 1..Len(obj.props) : obj.props[i].name = name]).value
    ELSE Undefined

\* The value of the last element of the list that has the name.
LastListed(elements, name) ==
    LET last_i == CHOOSE i \in 1..Len(elements) :
                     /\ elements[i].name = name
                     /\ \A j \in (i + 1)..Len(elements) : elements[j].name # name
    IN elements[last_i].value

\* Every name listed holds, in the decoded object, the decoded value of the
\* last element listed under it.
LaterValueRemains(obj, elements) ==
    \A i \in 1..Len(elements) :
        PropertyOf(obj, elements[i].name)
            = Avm2DeserializeValue(LastListed(elements, elements[i].name)).v

\* C20: the decoder assigns the elements in the order listed: a name listed
\* twice keeps its later value, in an Object, an ECMAArray and a stored
\* container, and an ECMAArray's sparse elements are assigned after the array
\* is built from its dense list, so that a sparse element named by an index
\* replaces the dense value at that index and every other dense value stays.
C20_AssignedInListedOrder ==
    /\ (amfOut.t = "wire_decoded" /\ amfOut.back.ok /\ amfIn.wire.a = "Object") =>
          LaterValueRemains(amfOut.back.v, amfIn.wire.elements)
    /\ (amfOut.t = "wire_decoded" /\ amfOut.back.ok /\ amfIn.wire.a = "ECMAArray") =>
          /\ LaterValueRemains(amfOut.back.v, amfIn.wire.assoc)
          /\ \A k \in 1..Len(amfIn.wire.dense) :
                (\A i \in 1..Len(amfIn.wire.assoc) : amfIn.wire.assoc[i].name # ToString(k - 1))
                   => PropertyOf(amfOut.back.v, ToString(k - 1))
                         = Avm2DeserializeValue(amfIn.wire.dense[k]).v
    /\ (amfOut.t = "lso_decoded" /\ amfOut.back.ok) =>
          LaterValueRemains(amfOut.back.v, amfIn.lso.body)

\* An ECMAArray with the dense value 1 and the sparse elements "0" = "a" and
\* then "0" = Reference: element 0 is Undefined after the decode.
C20_Witness ==
    /\ amfOut.t = "wire_decoded"
    /\ amfIn.wire = AmfECMAArray(<<AmfNumber(1)>>,
                                 <<Element(<<"0">>, AmfString(<<"a">>)),
                                   Element(<<"0">>, AmfReference)>>, 2)
    /\ amfOut.back = Ok(ArrayObject(<<Prop(<<"0">>, Undefined)>>, 1))

\* The encoder returned the Object of a generic class instance.
EncodedInstance ==
    /\ EncodedValue
    /\ amfIn.value.t = "Object"
    /\ amfIn.value.kind = "instance"
    /\ ~IsFunction(amfIn.value)
    /\ ~IsDisplay(amfIn.value)
    /\ amfOut.result # <<Panicked>>

\* The names of the elements i..j of an element list.
ElementNames(elements, i, j) == [k \in 1..(j + 1 - i) |-> elements[k + i - 1].name]

\* The fixed properties that recursive_serialize appends: those that are not
\* getter-only or setter-only and whose value does not encode to None.
AppendedFixed(o, amf_version) ==
    {o.fixed[i].name : i \in {j \in 1..Len(o.fixed) :
        /\ o.fixed[j].accessor \notin {"get", "set"}
        /\ Avm2SerializeValue(o.fixed[j].value, amf_version) # <<>>}}

\* C21: in the Object the encoder gives for a class instance the elements of
\* the fixed properties come first, in ascending name order, ahead of every
\* dynamic property; a getter-only or setter-only property has no element; and
\* under AMF3 the static property names are, in order, the names of exactly
\* those leading elements.
C21_StaticPropertiesFirst ==
    EncodedInstance =>
        LET o == amfIn.value
            w == amfOut.result[1]
            fixed == AppendedFixed(o, amfIn.version)
            k == Cardinality(fixed)
            n == Len(w.elements)
        IN /\ k <= n
           /\ {w.elements[i].name : i \in 1..k} = fixed
           /\ \A i \in 1..k : \A j \in (i + 1)..k :
                 StrLess(w.elements[i].name, w.elements[j].name)
           /\ \A i \in (k + 1)..n :
                 \E d \in 1..Len(o.props) : o.props[d].name = w.elements[i].name
           /\ \A i \in 1..Len(o.fixed) :
                 o.fixed[i].accessor \in {"get", "set"} =>
                    \A e \in 1..k : w.elements[e].name # o.fixed[i].name
           /\ amfIn.version = "AMF3" =>
                 w.class[1].static_properties = ElementNames(w.elements, 1, k)

\* An instance whose vtable lists y (getter only), x, a (getter and setter)
\* and the method z: the elements are a and x, and so are the static names.
C21_Witness ==
    /\ EncodedInstance
    /\ amfIn.version = "AMF3"
    /\ Len(amfIn.value.fixed) = 4
    /\ amfIn.value.fixed[1].value = Number(1)
    /\ ElementNames(amfOut.result[1].elements, 1, 2) = << <<"a">>, <<"x">> >>
    /\ amfOut.result[1].class[1].static_properties = << <<"a">>, <<"x">> >>

\* No name is listed twice.
DistinctNames(elements) ==
    \A i \in 1..Len(elements) : \A j \in (i + 1)..Len(elements) :
        elements[i].name # elements[j].name

RECURSIVE NoNameTwice(_)

\* No object or array of the wire value lists a name twice, at any depth.
NoNameTwice(w) ==
    CASE w.a = "Object" ->
            /\ DistinctNames(w.elements)
            /\ \A i \in 1..Len(w.elements) : NoNameTwice(w.elements[i].value)
      [] w.a = "ECMAArray" ->
            /\ DistinctNames(w.assoc)
            /\ \A i \in 1..Len(w.assoc) : NoNameTwice(w.assoc[i].value)
            /\ \A k \in 1..Len(w.dense) : NoNameTwice(w.dense[k])
      [] w.a = "StrictArray" -> \A k \in 1..Len(w.dense) : NoNameTwice(w.dense[k])
      [] OTHER -> TRUE

\* C22: one traversal of an object reads and encodes each of its properties
\* at most once: no name occurs twice among the elements the encoder gives
\* for an object, also for an instance that has fixed and dynamic properties.
C22_EachPropertyOnce ==
    (EncodedValue /\ amfOut.result # <<>> /\ amfOut.result # <<Panicked>>)
        => NoNameTwice(amfOut.result[1])

\* An instance with the fixed slot x and the dynamic property y, both encoded.
C22_Witness ==
    /\ EncodedInstance
    /\ Len(amfIn.value.fixed) = 1
    /\ Len(amfIn.value.props) = 1
    /\ ElementNames(amfOut.result[1].elements, 1, Len(amfOut.result[1].elements))
          = << <<"x">>, <<"y">> >>

\* C23: the encoder gives StrictArray for an array if and only if every
\* serialized element lands in the dense list, and an ECMAArray otherwise;
\* the dense and the sparse list split the serialized elements: each element
\* is in exactly one of them, both lists in enumeration order.
C23_StrictOrECMAArray ==
    Encoded =>
        LET elems == SerializedElements
            w == amfOut.result[1]
            all == 1..Len(elems)
        IN /\ w.a \in {"StrictArray", "ECMAArray"}
           /\ (w.a = "StrictArray") <=> (DenseByIndex(elems) = all)
           /\ w.a = "ECMAArray" => w.assoc # <<>>
           /\ Len(OutDense) + Len(OutSparse) = Len(elems)
           /\ \E dense \in SUBSET all :
                 /\ OutDense = ValuesOf(Pick(elems, dense, 1))
                 /\ OutSparse = Pick(elems, all \ dense, 1)

\* "0" and "foo" enumerated in this order, both holding a string: an ECMAArray
\* with one dense value and one sparse element.
C23_Witness ==
    /\ Encoded
    /\ amfOut.result[1].a = "ECMAArray"
    /\ OutDense = <<AmfString(<<"a">>)>>
    /\ OutSparse = <<Element(<<"f", "o", "o">>, AmfString(<<"b", "a", "r">>))>>

\* The elements "0" and "1" enumerated in this order: a StrictArray.
C23_StrictWitness ==
    /\ Encoded
    /\ amfOut.result[1] = AmfStrictArray(<<AmfString(<<"a">>), AmfString(<<"b">>)>>)

-----------------------------------------------------------------------------
(* Claims checked under SpecFlush.                                         *)

RECURSIVE AfterLastSlash(_)

\* The part of a string after its last "/", the whole string if it has none.
AfterLastSlash(str) ==
    IF str = <<>> THEN <<>>
    ELSE IF str[Len(str)] = "/" THEN <<>>
    ELSE Append(AfterLastSlash(SubSeq(str, 1, Len(str) - 1)), str[Len(str)])

\* C24: flush() gives the backend, under the key of the handle and no other,
\* a container of format AMF0 named by the part of the key after its last "/";
\* when the name given to getLocal has a "/", the key holds the name behind a
\* "#" and the container is named by the part of the name after its last "/".
C24_FlushContainerName ==
    (last.op = "flush" /\ call.called) =>
        LET key == handles[last.this].name
            lso == last.bytes.lso
        IN /\ last.skeys = {key}
           /\ lso.name = AfterLastSlash(key)
           /\ lso.version = "AMF0"
           /\ last.put => storage[key] = last.bytes
           /\ DOMAIN storage \subseteq DOMAIN initial \cup {key}
           /\ lso.name = AfterLastSlash(call.name)
           /\ Contains(call.name, "/") =>
                 /\ Len(key) > Len(call.name)
                 /\ SubSeq(key, Len(key) - Len(call.name), Len(key)) = <<"#">> \o call.name

\* getLocal("a/b") and a flush that stored: the container is named "b".
C24_Witness ==
    /\ last.op = "flush"
    /\ last.put
    /\ call.called
    /\ call.name = <<"a", "/", "b">>
    /\ last.bytes.lso.name = <<"b">>
    /\ last.bytes.lso.body # <<>>
    /\ \E k \in DOMAIN storage : Contains(k, "#") /\ storage[k] = last.bytes

-----------------------------------------------------------------------------
(* Further claims checked under SpecCodec and SpecAmf.                     *)

RECURSIVE ReverseOfKept(_, _, _)

\* The elements are those of the properties kept, in the reverse of the order
\* of props, and so at every depth. A property is kept unless its value
\* encodes to None; one whose getter fails is kept unless skip_failing.
ReverseOfKept(props, elements, skip_failing) ==
    LET kept == SelectSeq(props, LAMBDA p :
                    IF p.value = GetFails THEN ~skip_failing
                    ELSE Avm1SerializeValue(p.value) # <<>>)
        n == Len(kept)
    IN /\ Len(elements) = n
       /\ \A i \in 1..n :
             LET p == kept[n + 1 - i]
                 e == elements[i]
             IN /\ e.name = p.name
                /\ p.value # GetFails
                /\ IF p.value.t = "Object" /\ p.value.kind = "plain"
                   THEN e.value.a = "Object"
                        /\ ReverseOfKept(p.value.props, e.value.elements, skip_failing)
                   ELSE IF p.value.t = "Object" /\ p.value.kind = "array"
                   THEN e.value.a = "ECMAArray"
                        /\ ReverseOfKept(p.value.props, e.value.assoc, skip_failing)
                   ELSE <<e.value>> = Avm1SerializeValue(p.value)

\* The store's encoder returned the value of an object or an array.
Avm1EncodedContainer ==
    /\ amfOut.t = "encoded1"
    /\ amfIn.value.t = "Object"
    /\ amfIn.value.kind \in {"plain", "array"}

\* The element list of the value the store's encoder returned.
Avm1OutElements ==
    IF amfOut.result[1].a = "Object" THEN amfOut.result[1].elements ELSE amfOut.result[1].assoc

EncodedVector ==
    /\ EncodedValue
    /\ amfIn.value.t = "Object"
    /\ amfIn.value.kind = "vector"

\* The element fits the declared element type of the vector.
FitsVector(vec, v, amf_version) ==
    IF vec.value_type = <<IntClass>> THEN v.t = "Integer"
    ELSE IF vec.value_type = <<UintClass>> THEN v.t = "Integer" /\ v.n >= 0
    ELSE IF vec.value_type = <<NumberClass>> THEN v.t \in {"Integer", "Number"}
    ELSE Avm2SerializeValue(v, amf_version) # <<>>

\* The wire vector that goes with the declared element type.
VectorTag(vec) ==
    IF vec.value_type = <<IntClass>> THEN "VectorInt"
    ELSE IF vec.value_type = <<UintClass>> THEN "VectorUInt"
    ELSE IF vec.value_type = <<NumberClass>> THEN "VectorDouble"
    ELSE "VectorObject"

\* C26: when an element of a vector does not fit the vector's declared element
\* type the encoder stops with an unrecoverable failure and returns nothing;
\* a vector value it returns has as many elements as the source vector and
\* the same fixed-length flag.
C26_VectorHomogeneity ==
    EncodedVector =>
        LET vec == amfIn.value
            fit == \A i \in 1..Len(vec.elements) :
                      FitsVector(vec, vec.elements[i], amfIn.version)
        IN /\ amfOut.result # <<>>
           /\ ~fit => amfOut.result = <<Panicked>>
           /\ (fit /\ (amfIn.lookup \/ VectorTag(vec) # "VectorObject"))
                 => amfOut.result # <<Panicked>>
           /\ amfOut.result # <<Panicked>> =>
                 /\ amfOut.result[1].a = VectorTag(vec)
                 /\ Len(amfOut.result[1].v) = Len(vec.elements)
                 /\ amfOut.result[1].is_fixed = vec.is_fixed

\* An object vector that holds a string and a function: the encoder panics.
C26_Witness ==
    /\ EncodedVector
    /\ amfIn.lookup
    /\ amfIn.value = VectorObject(<<>>, <<String(<<"a">>), FunctionObject>>, FALSE)
    /\ amfOut.result = <<Panicked>>

\* An int vector of two integers, fixed: VectorInt with both of them.
C26_ReturnedWitness ==
    /\ EncodedVector
    /\ amfOut.result = <<AmfVectorInt(<<1, 0 - 1>>, TRUE)>>

-----------------------------------------------------------------------------
(* Claims checked under SpecRegistry.                                      *)

\* The set_class_symbol calls made for the class, in order.
CallsFor(class_object) == SelectSeq(symbol_calls, LAMBDA c : c.class = class_object)

\* C27: the first association of a class wins: while the movie of the first
\* set_class_symbol call for a class is alive, class_symbol gives the movie
\* and symbol of that call, and a call for a class that has a live association
\* leaves it as it was, whatever movie and symbol the call names.
C27_FirstAssociationWins ==
    /\ \A c \in RegistryClasses :
          (CallsFor(c) # <<>> /\ CallsFor(c)[1].movie \in movies) =>
              ClassSymbol(c) = <<MovieSymbol(CallsFor(c)[1].movie, CallsFor(c)[1].symbol)>>
    /\ (last.op = "set_class_symbol" /\ last.old # <<>>) => ClassSymbol(last.class) = last.old

\* Three calls for c1: m1 with symbol 1, m1 with symbol 2, m2 with symbol 1;
\* class_symbol(c1) is (m1, 1).
C27_Witness ==
    /\ symbol_calls = << [class |-> "c1", movie |-> "m1", symbol |-> 1],
                         [class |-> "c1", movie |-> "m1", symbol |-> 2],
                         [class |-> "c1", movie |-> "m2", symbol |-> 1] >>
    /\ movies = Movies
    /\ ClassSymbol("c1") = <<MovieSymbol("m1", 1)>>

\* After the movie of the first association is dropped, a call for the class
\* with another movie is stored.
C27_ExpiredReplaced ==
    /\ symbol_calls = << [class |-> "c1", movie |-> "m1", symbol |-> 1],
                         [class |-> "c1", movie |-> "m2", symbol |-> 2] >>
    /\ ClassSymbol("c1") = <<MovieSymbol("m2", 2)>>

-----------------------------------------------------------------------------
(* Further claims checked under Spec and SpecInject.                       *)

\* C28: a getLocal call leaves the storage backend as it was; it leaves the
\* cache as it was when it returns Null and when it finds the key cached, and
\* otherwise adds to the cache the one key it derived, mapped to the handle it
\* returns.
C28_GetLocalFrame ==
    [][last'.op = "get_local" =>
          /\ storage' = storage
          /\ IF IsHandle(last'.res) /\ ~last'.hit
             THEN /\ last'.composed # <<>>
                  /\ last'.composed[1] \notin DOMAIN cache
                  /\ cache' = Extend(cache, last'.composed[1], last'.res.h)
             ELSE cache' = cache]_vars

\* A lookup rejected with Null while the cache and the backend hold entries.
C28_Witness ==
    /\ last.op = "get_local"
    /\ last.res = Null
    /\ Cardinality(DOMAIN cache) = 2
    /\ \E k \in DOMAIN storage : k \in DOMAIN flushed

\* A lookup that found its key cached while the backend holds entries.
C28_HitWitness ==
    /\ last.op = "get_local"
    /\ last.hit
    /\ \E k \in DOMAIN storage : k \in DOMAIN flushed

\* C29: when the player starts with an empty backend, the backend holds an
\* entry under a key exactly when a flush on the handle of that key returned
\* true and no clear on it came after the last such flush; a step changes the
\* backend only if it is a flush or a clear, only under the key of the handle
\* it is called on, a flush adding or overwriting and a clear removing.
C29_StorageTracksFlushAndClear ==
    /\ [](initial = EmptyFn => DOMAIN storage = DOMAIN flushed)
    /\ [][storage' # storage =>
             /\ last'.op \in {"flush", "clear"}
             /\ LET key == handles[last'.this].name
                IN /\ \A k \in (DOMAIN storage \cup DOMAIN storage') \ {key} :
                         /\ k \in DOMAIN storage
                         /\ k \in DOMAIN storage'
                         /\ storage'[k] = storage[k]
                   /\ IF key \in DOMAIN storage'
                      THEN last'.op = "flush" /\ last'.res = Bool(TRUE)
                      ELSE last'.op = "clear"]_vars

\* Two keys flushed from an empty backend, then a clear on one of them: the
\* entry of the other stays.
C29_Witness ==
    /\ initial = EmptyFn
    /\ last.op = "clear"
    /\ last.existed
    /\ Cardinality(DOMAIN storage) = 1
    /\ \A k \in DOMAIN storage : k # handles[last.this].name

\* The local path a lookup from the movie uses: the trimmed localPath argument,
\* or the movie's path when there is none; <<>> when the argument is refused.
EffectiveLocalPath(url, lp) == LocalPath(MoviePath(StripQueryFragment(url)), lp)

\* The lookup recorded was accepted.
AcceptedCall ==
    /\ call.called
    /\ last.op = "get_local"
    /\ IsHandle(last.res)

\* C30: for one movie URL, every accepted lookup that derives the key of
\* the accepted lookup recorded has the same name and the same effective local
\* path; the "#" keeps a name with "/" under a local path from the key of its
\* last part under the longer local path.
C30_KeyInjective ==
    AcceptedCall =>
        \A name \in InjectNames, lp \in KeyPaths :
            LET d == DeriveKey(name, call.url, lp, call.secure)
            IN (d.ok /\ d.key = last.composed[1]) =>
                  /\ name = call.name
                  /\ EffectiveLocalPath(call.url, lp) = EffectiveLocalPath(call.url, call.lp)

\* getLocal("a/a", "a") from http://h/a/a derives h/a/#a/a, and getLocal("a",
\* "a/a") from the same movie derives another key.
C30_Witness ==
    /\ AcceptedCall
    /\ call.name = <<"a", "/", "a">>
    /\ call.lp = PathArg(<<"a">>)
    /\ call.url = Url("http", HostH, <<"/", "a", "/", "a">>, <<>>, <<>>)
    /\ last.composed = << HostH \o <<"/", "a", "/", "#", "a", "/", "a">> >>
    /\ DeriveKey(<<"a">>, call.url, PathArg(<<"a", "/", "a">>), FALSE).key
          = HostH \o <<"/", "a", "/", "a", "/", "a">>

=============================================================================
